---- MODULE Spec2Model ----
(***************************************************************************)
(* Odyssey: the event causality graph (store/ecg.rs) and the ecg-sync v0   *)
(* mini-protocol (network/protocol/ecg_sync/v0).                           *)
(***************************************************************************)
EXTENDS Integers, Sequences, FiniteSets, TLC

\* ------------------------------------------------------------------ bounds
\* Header ids of the local-insert harness are 0 .. NumIds-1.
NumIds == 3
\* Longest parent list of a header offered to insert_header.
MaxParents == 2
\* Longest have list and headers list of a message from a remote peer.
MaxRemoteHave == 2
MaxRemoteHeaders == 2

\* The most headers of a DAG whose probe and send queues are drained.
MaxWide == 34

HeaderIds == 0 .. (NumIds - 1)

\* Parent lists offered locally: every list of up to MaxParents distinct ids,
\* and the lists <<a, a>> that name one parent twice.
ParentLists ==
    {p \in UNION {[1 .. n -> HeaderIds] : n \in 0 .. MaxParents} :
        \/ \A i, j \in 1 .. Len(p) : p[i] = p[j] => i = j
        \/ Len(p) = 2 /\ p[1] = p[2]}

\* ----------------------------------------------------------------- headers
\* A header carries the id derived from its contents and its parent ids.
Header(header_id, parent_ids) == [header_id |-> header_id, parent_ids |-> parent_ids]

get_parent_ids(header) == header.parent_ids

get_header_id(header) == header.header_id

\* Verification recomputes the id of the header and compares it with the id
\* the header is offered under.
validate_header(header, header_id) == get_header_id(header) = header_id

\* ------------------------------------------------------------ Option<T>
None == [some |-> FALSE, val |-> <<>>]

Some(x) == [some |-> TRUE, val |-> x]

\* ------------------------------------------------------------- helpers
RECURSIVE MinOf(_)
MinOf(S) ==
    LET x == CHOOSE y \in S : TRUE
    IN  IF S = {x} THEN x
        ELSE LET m == MinOf(S \ {x}) IN IF x < m THEN x ELSE m

Range(s) == {s[i] : i \in 1 .. Len(s)}

EmptyMap == [k \in {} |-> 0]

\* ------------------------------------------------------- daggy StableDag
\* nodes[i+1] is the weight (a header id) of NodeIndex i; edges are
\* <<parent index, child index>> in the order they were added.
StableDag_new == [nodes |-> <<>>, edges |-> <<>>]

add_node(g, weight) ==
    [graph |-> [g EXCEPT !.nodes = Append(g.nodes, weight)], index |-> Len(g.nodes)]

\* Edges that lead from the child to its parents.
add_edges_reversed(g, new_edges) ==
    [g EXCEPT !.edges = g.edges \o [i \in 1 .. Len(new_edges) |->
                                      <<new_edges[i][2], new_edges[i][1]>>]]

\* The new child has no outgoing edge, so the cycle check never fails.
add_edges(g, new_edges) == [g EXCEPT !.edges = g.edges \o new_edges]

node_weight(g, idx) == g.nodes[idx + 1]

\* Walkers yield the most recently added edge first.
RECURSIVE WalkParents(_, _, _)
WalkParents(g, idx, k) ==
    IF k = 0 THEN <<>>
    ELSE IF g.edges[k][2] = idx
         THEN <<g.edges[k][1]>> \o WalkParents(g, idx, k - 1)
         ELSE WalkParents(g, idx, k - 1)

dag_parents(g, idx) == WalkParents(g, idx, Len(g.edges))

RECURSIVE WalkChildren(_, _, _)
WalkChildren(g, idx, k) ==
    IF k = 0 THEN <<>>
    ELSE IF g.edges[k][1] = idx
         THEN <<g.edges[k][2]>> \o WalkChildren(g, idx, k - 1)
         ELSE WalkChildren(g, idx, k - 1)

dag_children(g, idx) == WalkChildren(g, idx, Len(g.edges))

\* ------------------------------------------------------------ ecg::State
NodeInfo(graph_index, depth, header) ==
    [graph_index |-> graph_index, depth |-> depth, header |-> header]

State_new ==
    [dependency_graph |-> StableDag_new,
     root_nodes       |-> {},
     node_info_map    |-> EmptyMap,
     tips             |-> {}]

tips(s) == s.tips

\* A contains that holds of every id.
contains_any(s, h) == TRUE

contains(s, h) == h \in DOMAIN s.node_info_map

get_header(s, n) ==
    IF n \in DOMAIN s.node_info_map THEN Some(s.node_info_map[n].header) ELSE None

get_header_depth(s, n) ==
    IF n \in DOMAIN s.node_info_map THEN Some(s.node_info_map[n].depth) ELSE None

\* Parents of h as <<depth, id>> pairs; None when h or a parent is unknown.
get_parents_with_depth(s, h) ==
    IF h \notin DOMAIN s.node_info_map THEN None
    ELSE LET g    == s.dependency_graph
             idxs == dag_parents(g, s.node_info_map[h].graph_index)
             ids  == [i \in 1 .. Len(idxs) |-> node_weight(g, idxs[i])]
         IN  IF \E i \in 1 .. Len(ids) : ids[i] \notin DOMAIN s.node_info_map
             THEN None
             ELSE Some([i \in 1 .. Len(ids) |->
                          <<s.node_info_map[ids[i]].depth, ids[i]>>])

get_parents(s, h) ==
    IF h \notin DOMAIN s.node_info_map THEN None
    ELSE LET g    == s.dependency_graph
             idxs == dag_parents(g, s.node_info_map[h].graph_index)
         IN  Some([i \in 1 .. Len(idxs) |-> node_weight(g, idxs[i])])

get_children_with_depth(s, h) ==
    IF h \notin DOMAIN s.node_info_map THEN None
    ELSE LET g    == s.dependency_graph
             idxs == dag_children(g, s.node_info_map[h].graph_index)
             ids  == [i \in 1 .. Len(idxs) |-> node_weight(g, idxs[i])]
         IN  IF \E i \in 1 .. Len(ids) : ids[i] \notin DOMAIN s.node_info_map
             THEN None
             ELSE Some([i \in 1 .. Len(ids) |->
                          <<s.node_info_map[ids[i]].depth, ids[i]>>])

\* parents.iter().any(|parent_id| self.tips.remove(parent_id)): `any` stops at
\* the first parent that was a tip, so later parents are not removed.
RECURSIVE TipsRemoveAny(_, _)
TipsRemoveAny(tip_set, parents) ==
    IF parents = <<>> THEN [tips |-> tip_set, any |-> FALSE]
    ELSE IF Head(parents) \in tip_set
         THEN [tips |-> tip_set \ {Head(parents)}, any |-> TRUE]
         ELSE TipsRemoveAny(tip_set, Tail(parents))

\* Update tip if any of the parents were previously a tip: the new header
\* becomes a tip only then.
UpdateTips(tip_set, parents, header_id) ==
    LET r == TipsRemoveAny(tip_set, parents)
    IN  IF r.any THEN r.tips \cup {header_id} ELSE r.tips

\* insert_header without the validation of the header.
rejects_invalid_never(header_id, header) == FALSE

\* if !header.validate_header(header_id) { return false; }
rejects_invalid(header_id, header) == ~validate_header(header, header_id)

\* insert_header without the check for an id that is a node already.
already_present_never(s, header_id) == FALSE

\* if self.node_info_map.contains_key(&header_id) { return false; }
already_present(s, header_id) == header_id \in DOMAIN s.node_info_map

\* A root insertion that forgets to record the root.
root_nodes_insert_keep(root_nodes, header_id) ==
    [root_nodes |-> root_nodes, is_new_insert |-> header_id \notin root_nodes]

\* self.root_nodes.insert(header_id): the set it leaves, and whether the id
\* was new to it.
root_nodes_insert(root_nodes, header_id) ==
    [root_nodes |-> root_nodes \cup {header_id}, is_new_insert |-> header_id \notin root_nodes]

\* The depth fold with cmp::max in place of cmp::min.
min_parent_depth_max(s, parents) ==
    CHOOSE d \in {s.node_info_map[parents[i]].depth : i \in 1 .. Len(parents)} :
        \A i \in 1 .. Len(parents) : s.node_info_map[parents[i]].depth <= d

\* depth = cmp::min(depth, i.depth) over the parents, from u64::MAX; the
\* parents are all nodes and there is at least one.
min_parent_depth(s, parents) ==
    MinOf({s.node_info_map[parents[i]].depth : i \in 1 .. Len(parents)})

\* A parent lookup that skips the parents that are not nodes (filter_map in
\* place of try_collect); the depth fold over no parent wraps to 0.
parent_lookup_present(s, parents) ==
    LET present == SelectSeq(parents, LAMBDA p : p \in DOMAIN s.node_info_map)
    IN  Some([parent_idxs |-> [i \in 1 .. Len(present) |->
                                 s.node_info_map[present[i]].graph_index],
              depth       |-> IF present = <<>> THEN 0
                              ELSE MinOf({s.node_info_map[present[i]].depth :
                                             i \in 1 .. Len(present)})])

\* The graph indices of the parents and their minimum depth; None as soon as a
\* parent is not a node.
parent_lookup(s, parents) ==
    IF \E i \in 1 .. Len(parents) : parents[i] \notin DOMAIN s.node_info_map
    THEN None
    ELSE Some([parent_idxs |-> [i \in 1 .. Len(parents) |->
                                  s.node_info_map[parents[i]].graph_index],
               depth       |-> min_parent_depth(s, parents)])

\* A rejection after root_nodes.insert has already run for a header without
\* parents.
rejected_dirty(s, header_id, header) ==
    [st  |-> IF get_parent_ids(header) = <<>>
             THEN [s EXCEPT !.root_nodes = @ \cup {header_id}]
             ELSE s,
     ret |-> FALSE]

\* return false: the state a rejected insert_header leaves.
rejected(s, header_id, header) == [st |-> s, ret |-> FALSE]

\* insert_header from the tip update on: the checks have passed.
accepted(s, header_id, header, roots, parent_idxs, depth) ==
    LET added == add_node(s.dependency_graph, header_id)
    IN  [st  |-> [dependency_graph |->
                     add_edges(added.graph,
                               [i \in 1 .. Len(parent_idxs) |->
                                  <<parent_idxs[i], added.index>>]),
                  root_nodes       |-> roots,
                  node_info_map    |->
                     (header_id :> NodeInfo(added.index, depth, header))
                        @@ s.node_info_map,
                  tips             |->
                     UpdateTips(s.tips, get_parent_ids(header), header_id)],
         ret |-> TRUE]

insert_root(s, header_id, header, r) ==
    IF ~r.is_new_insert THEN rejected(s, header_id, header)
    ELSE accepted(s, header_id, header, r.root_nodes, <<>>, 1)

insert_child(s, header_id, header, l) ==
    IF ~l.some THEN rejected(s, header_id, header)
    ELSE accepted(s, header_id, header, s.root_nodes, l.val.parent_idxs, l.val.depth + 1)

\* insert_header(&mut self, header_id, header) -> bool, as the pair of the
\* state it leaves and the value it returns.
insert_header(s, header_id, header) ==
    IF rejects_invalid(header_id, header) THEN rejected(s, header_id, header)
    ELSE IF already_present(s, header_id) THEN rejected(s, header_id, header)
    ELSE IF get_parent_ids(header) = <<>>
    THEN insert_root(s, header_id, header, root_nodes_insert(s.root_nodes, header_id))
    ELSE insert_child(s, header_id, header, parent_lookup(s, get_parent_ids(header)))

\* --------------------------------------------------- std BinaryHeap
\* A max-heap as the sequence of its elements in descending order; tuples
\* compare lexicographically, false < true.
B2N(b) == IF b THEN 1 ELSE 0

HeapKey(x) == IF Len(x) = 4 THEN <<B2N(x[1]), x[2], x[3], x[4]>> ELSE x

RECURSIVE LexLt(_, _)
LexLt(a, b) ==
    IF a = <<>> THEN FALSE
    ELSE IF Head(a) < Head(b) THEN TRUE
    ELSE IF Head(a) > Head(b) THEN FALSE
    ELSE LexLt(Tail(a), Tail(b))

RECURSIVE heap_push(_, _)
heap_push(heap, x) ==
    IF heap = <<>> THEN <<x>>
    ELSE IF LexLt(HeapKey(Head(heap)), HeapKey(x)) THEN <<x>> \o heap
    ELSE <<Head(heap)>> \o heap_push(Tail(heap), x)

RECURSIVE heap_extend(_, _)
heap_extend(heap, xs) ==
    IF xs = <<>> THEN heap ELSE heap_extend(heap_push(heap, Head(xs)), Tail(xs))

\* ------------------------------------------------------ ecg_sync::v0
MAX_HAVE_HEADERS == 32

MAX_DELIVER_HEADERS == 32

\* A test that every distance passes.
is_power_of_two_any(x) == TRUE

\* Check if the input is a power of two (inclusive of 0): 0 == x & (x - 1).
RECURSIVE is_power_of_two(_)
is_power_of_two(x) ==
    IF x <= 2 THEN TRUE
    ELSE IF x % 2 = 1 THEN FALSE
    ELSE is_power_of_two(x \div 2)

\* mark_as_known::go: pop the front and insert it. BTreeSet::insert returns
\* true when the id was newly inserted; that value is bound to `contains` and
\* the parents are enqueued `if !contains`, that is, when the id was in
\* their_known before. The result is the set and whether a todo!() was hit.
RECURSIVE mark_as_known_go(_, _, _)
mark_as_known_go(s, their_known, queue) ==
    IF queue = <<>> THEN [their_known |-> their_known, panic |-> FALSE]
    ELSE LET header_id == Head(queue)
             inserted  == header_id \notin their_known
         IN  IF inserted
             THEN mark_as_known_go(s, their_known \cup {header_id}, Tail(queue))
             ELSE LET parents == get_parents(s, header_id)
                  IN  IF ~parents.some
                      THEN [their_known |-> their_known, panic |-> TRUE]
                      ELSE mark_as_known_go(s, their_known,
                                            Tail(queue) \o parents.val)

\* A mark_as_known that starts from an empty set.
mark_as_known_reset(s, their_known, header_id) ==
    mark_as_known_go(s, {}, <<header_id>>)

mark_as_known(s, their_known, header_id) ==
    mark_as_known_go(s, their_known, <<header_id>>)

\* prepare_haves::go that stops one entry too late.
RECURSIVE prepare_haves_go_late(_, _, _, _)
prepare_haves_go_late(s, queue, their_known, haves) ==
    IF Len(haves) > MAX_HAVE_HEADERS \/ queue = <<>>
    THEN [queue |-> queue, haves |-> haves, panic |-> FALSE]
    ELSE LET top     == Head(queue)
             haves2  == IF top[3] \in their_known THEN haves
                        ELSE IF is_power_of_two(top[4]) \/ top[2] = 1
                        THEN Append(haves, top[3]) ELSE haves
             parents == get_parents_with_depth(s, top[3])
         IN  IF top[3] \in their_known
             THEN prepare_haves_go_late(s, Tail(queue), their_known, haves)
             ELSE IF ~parents.some
             THEN [queue |-> Tail(queue), haves |-> haves2, panic |-> TRUE]
             ELSE prepare_haves_go_late(s,
                    heap_extend(Tail(queue),
                       [i \in 1 .. Len(parents.val) |->
                          <<FALSE, parents.val[i][1], parents.val[i][2], top[4] + 1>>]),
                    their_known, haves2)

\* prepare_haves::go that enqueues the parents only of the headers it proposes.
RECURSIVE prepare_haves_go_sparse(_, _, _, _)
prepare_haves_go_sparse(s, queue, their_known, haves) ==
    IF Len(haves) = MAX_HAVE_HEADERS \/ queue = <<>>
    THEN [queue |-> queue, haves |-> haves, panic |-> FALSE]
    ELSE LET top     == Head(queue)
             parents == get_parents_with_depth(s, top[3])
         IN  IF top[3] \in their_known \/ ~(is_power_of_two(top[4]) \/ top[2] = 1)
             THEN prepare_haves_go_sparse(s, Tail(queue), their_known, haves)
             ELSE prepare_haves_go_sparse(s,
                    heap_extend(Tail(queue),
                       [i \in 1 .. Len(parents.val) |->
                          <<FALSE, parents.val[i][1], parents.val[i][2], top[4] + 1>>]),
                    their_known, Append(haves, top[3]))

\* prepare_haves::go, after haves.clear().
RECURSIVE prepare_haves_go(_, _, _, _)
prepare_haves_go(s, queue, their_known, haves) ==
    IF Len(haves) = MAX_HAVE_HEADERS \/ queue = <<>>
    THEN [queue |-> queue, haves |-> haves, panic |-> FALSE]
    ELSE LET top       == Head(queue)
             depth     == top[2]
             header_id == top[3]
             distance  == top[4]
             skip      == header_id \in their_known
         IN  IF skip THEN prepare_haves_go(s, Tail(queue), their_known, haves)
             ELSE LET haves2  == IF is_power_of_two(distance) \/ depth = 1
                                 THEN Append(haves, header_id) ELSE haves
                      parents == get_parents_with_depth(s, header_id)
                  IN  IF ~parents.some
                      THEN [queue |-> Tail(queue), haves |-> haves2, panic |-> TRUE]
                      ELSE prepare_haves_go(s,
                             heap_extend(Tail(queue),
                                [i \in 1 .. Len(parents.val) |->
                                   <<FALSE, parents.val[i][1], parents.val[i][2],
                                     distance + 1>>]),
                             their_known, haves2)

prepare_haves(s, queue, their_known) == prepare_haves_go(s, queue, their_known, <<>>)

\* The loop of handle_received_have over have[i..], after known_bitmap.fill(false).
\* The bitmap is the set of its set positions, 0 .. MAX_HAVE_HEADERS-1.
RECURSIVE handle_received_have_loop(_, _, _, _, _, _)
handle_received_have_loop(s, their_known, send_queue, have, i, known_bitmap) ==
    IF i > Len(have)
    THEN [their_known |-> their_known, send_queue |-> send_queue,
          known_bitmap |-> known_bitmap, panic |-> FALSE]
    ELSE IF ~contains(s, have[i])
    THEN handle_received_have_loop(s, their_known, send_queue, have, i + 1, known_bitmap)
    ELSE LET marked   == mark_as_known(s, their_known, have[i])
             children == get_children_with_depth(s, have[i])
         IN  IF marked.panic \/ i - 1 >= MAX_HAVE_HEADERS \/ ~children.some
             THEN [their_known |-> marked.their_known, send_queue |-> send_queue,
                   known_bitmap |-> known_bitmap, panic |-> TRUE]
             ELSE handle_received_have_loop(s, marked.their_known,
                    heap_extend(send_queue, children.val), have, i + 1,
                    known_bitmap \cup {i - 1})

Min2(a, b) == IF a < b THEN a ELSE b

\* A handle_received_have that numbers the bits from 1.
handle_received_have_from_one(s, their_tips_remaining, their_tips, their_known, send_queue, have) ==
    LET provided_tip_c == Min2(their_tips_remaining, Len(have))
        r == handle_received_have_loop(s, their_known, send_queue, have, 1, {})
    IN  [their_tips_remaining |-> their_tips_remaining - provided_tip_c,
         their_tips   |-> their_tips \o SubSeq(have, 1, provided_tip_c),
         their_known  |-> r.their_known,
         send_queue   |-> r.send_queue,
         known_bitmap |-> {b + 1 : b \in r.known_bitmap},
         panic        |-> r.panic]

handle_received_have(s, their_tips_remaining, their_tips, their_known, send_queue, have) ==
    LET provided_tip_c == Min2(their_tips_remaining, Len(have))
        r == handle_received_have_loop(s, their_known, send_queue, have, 1, {})
    IN  [their_tips_remaining |-> their_tips_remaining - provided_tip_c,
         their_tips   |-> their_tips \o SubSeq(have, 1, provided_tip_c),
         their_known  |-> r.their_known,
         send_queue   |-> r.send_queue,
         known_bitmap |-> r.known_bitmap,
         panic        |-> r.panic]

\* A handle_received_headers that stores each received header without its
\* parents.
RECURSIVE handle_received_headers_bare(_, _)
handle_received_headers_bare(s, headers) ==
    IF headers = <<>> THEN s
    ELSE handle_received_headers_bare(
           insert_header(s, get_header_id(Head(headers)),
                         Header(get_header_id(Head(headers)), <<>>)).st,
           Tail(headers))

\* Each received header is offered to the DAG under the id it carries; the
\* result of insert_header is dropped and all_valid stays true.
RECURSIVE handle_received_headers(_, _)
handle_received_headers(s, headers) ==
    IF headers = <<>> THEN s
    ELSE handle_received_headers(
           insert_header(s, get_header_id(Head(headers)), Head(headers)).st,
           Tail(headers))

\* prepare_headers::go that sends a header whether the peer knows it or not.
RECURSIVE prepare_headers_go_noskip(_, _, _, _)
prepare_headers_go_noskip(s, send_queue, their_known, headers) ==
    IF Len(headers) = MAX_DELIVER_HEADERS \/ send_queue = <<>>
    THEN [send_queue |-> send_queue, their_known |-> their_known,
          headers |-> headers, panic |-> FALSE]
    ELSE LET header_id == Head(send_queue)[2]
             marked    == mark_as_known(s, their_known, header_id)
         IN  prepare_headers_go_noskip(s,
                heap_extend(Tail(send_queue), get_children_with_depth(s, header_id).val),
                marked.their_known, Append(headers, get_header(s, header_id).val))

\* prepare_headers::go, after headers.clear().
RECURSIVE prepare_headers_go(_, _, _, _)
prepare_headers_go(s, send_queue, their_known, headers) ==
    IF Len(headers) = MAX_DELIVER_HEADERS \/ send_queue = <<>>
    THEN [send_queue |-> send_queue, their_known |-> their_known,
          headers |-> headers, panic |-> FALSE]
    ELSE LET header_id == Head(send_queue)[2]
             skip      == header_id \in their_known
             header    == get_header(s, header_id)
             marked    == IF skip THEN [their_known |-> their_known, panic |-> FALSE]
                          ELSE mark_as_known(s, their_known, header_id)
             headers2  == IF skip \/ ~header.some THEN headers
                          ELSE Append(headers, header.val)
             children  == get_children_with_depth(s, header_id)
         IN  IF (~skip /\ ~header.some) \/ marked.panic \/ ~children.some
             THEN [send_queue |-> Tail(send_queue), their_known |-> marked.their_known,
                   headers |-> headers2, panic |-> TRUE]
             ELSE prepare_headers_go(s, heap_extend(Tail(send_queue), children.val),
                                     marked.their_known, headers2)

prepare_headers(s, send_queue, their_known) ==
    prepare_headers_go(s, send_queue, their_known, <<>>)

RECURSIVE handle_received_known_loop(_, _, _, _, _)
handle_received_known_loop(s, their_known, sent_haves, received_known, i) ==
    IF i > Len(sent_haves) THEN [their_known |-> their_known, panic |-> FALSE]
    ELSE IF i - 1 >= MAX_HAVE_HEADERS
    THEN [their_known |-> their_known, panic |-> TRUE]
    ELSE IF (i - 1) \notin received_known
    THEN handle_received_known_loop(s, their_known, sent_haves, received_known, i + 1)
    ELSE LET marked == mark_as_known(s, their_known, sent_haves[i])
         IN  IF marked.panic THEN marked
             ELSE handle_received_known_loop(s, marked.their_known, sent_haves,
                                             received_known, i + 1)

\* A handle_received_known that takes every sent have for acknowledged.
handle_received_known_all(s, their_known, sent_haves, received_known) ==
    handle_received_known_loop(s, their_known, sent_haves,
                               0 .. (MAX_HAVE_HEADERS - 1), 1)

handle_received_known(s, their_known, sent_haves, received_known) ==
    handle_received_known_loop(s, their_known, sent_haves, received_known, 1)

\* The per-session variables that handle_received_ecg_sync takes by reference.
ECGSyncState_new ==
    [their_tips_remaining |-> 0,
     their_tips   |-> <<>>,
     their_known  |-> {},
     send_queue   |-> <<>>,
     queue        |-> <<>>,
     haves        |-> <<>>,
     headers      |-> <<>>,
     known_bitmap |-> {}]

MsgECGSyncData(have, known, headers) ==
    [have |-> have, known |-> known, headers |-> headers]

\* handle_received_ecg_sync, step by step; each step passes on what the steps
\* before it left. The result is the DAG, the session variables, and whether a
\* todo!() or an out-of-range bitmap access was hit on the way.
sync_result(e, s2, k, h, p, q) ==
    [st    |-> s2,
     sync  |-> [their_tips_remaining |-> h.their_tips_remaining,
                their_tips   |-> h.their_tips,
                their_known  |-> p.their_known,
                send_queue   |-> p.send_queue,
                queue        |-> q.queue,
                haves        |-> q.haves,
                headers      |-> p.headers,
                known_bitmap |-> h.known_bitmap],
     panic |-> k.panic \/ h.panic \/ p.panic \/ q.panic]

\* Propose headers we have.
sync_prepare_haves(e, s2, k, h, p) ==
    sync_result(e, s2, k, h, p, prepare_haves(s2, e.queue, p.their_known))

\* Send the headers we have.
sync_prepare_headers(e, s2, k, h) ==
    sync_prepare_haves(e, s2, k, h, prepare_headers(s2, h.send_queue, h.their_known))

\* Handle the haves that the peer sent to us.
sync_received_have(sync_msg, e, s2, k) ==
    sync_prepare_headers(e, s2, k,
        handle_received_have(s2, e.their_tips_remaining, e.their_tips,
                             k.their_known, e.send_queue, sync_msg.have))

\* Receive the headers they sent to us.
sync_received_headers(sync_msg, s, e, k) ==
    sync_received_have(sync_msg, e, handle_received_headers(s, sync_msg.headers), k)

\* Record which headers they say they already know.
handle_received_ecg_sync(sync_msg, s, e) ==
    sync_received_headers(sync_msg, s, e,
        handle_received_known(s, e.their_known, e.haves, sync_msg.known))

\* An is_done that no Sync message satisfies.
is_done_data_never(m) == FALSE

\* An is_done that looks at the have list alone.
is_done_data_haves(m) == Len(m.have) = 0

\* ECGSyncMessage::is_done for the three message kinds.
is_done_data(m) == Len(m.have) = 0 /\ Len(m.headers) = 0

is_done_request(m) == Len(m.have) = 0

is_done(m) ==
    IF m.kind = "Request" THEN is_done_request(m) ELSE is_done_data(m.sync)

\* ------------------------------------------------------------- test.rs
\* The header tables of the tests: entry id+1 is the parent list of header id.
\* concurrent (and empty_one1, empty_one3): 3 merges 1 and 2, 4 extends 1.
TableConcurrent == << <<>>, <<0>>, <<>>, <<1, 2>>, <<1>> >>

\* cross: 3 merges 1 and 2, 4 merges 0 and 2.
TableCross == << <<>>, <<0>>, <<>>, <<1, 2>>, <<0, 2>> >>

\* empty2 (and empty_one2): 3 is a root, 4 merges 2 and 3.
TableEmpty2 == << <<>>, <<0>>, <<>>, <<>>, <<2, 3>> >>

Tables == {TableConcurrent, TableCross, TableEmpty2}

TableIds(table) == 0 .. (Len(table) - 1)

\* The sets of headers of a table that can be inserted: with every header, its
\* parents.
Prefixes(table) ==
    {S \in SUBSET TableIds(table) : \A id \in S : Range(table[id + 1]) \subseteq S}

RECURSIVE Ascending(_)
Ascending(S) ==
    IF S = {} THEN <<>> ELSE LET m == MinOf(S) IN <<m>> \o Ascending(S \ {m})

\* The (header_id, parent_ids) pairs of the ids S of a table, in ascending order.
Ops(table, S) ==
    LET ids == Ascending(S) IN [i \in 1 .. Len(ids) |-> <<ids[i], table[ids[i] + 1]>>]

RECURSIVE add_ops(_, _)
add_ops(s, ops) ==
    IF ops = <<>> THEN s
    ELSE add_ops(insert_header(s, Head(ops)[1], Header(Head(ops)[1], Head(ops)[2])).st,
                 Tail(ops))

\* test_helper up to run_ecg_sync: the common headers, a clone, then each
\* tree's own headers.
test_helper(common, left, right) ==
    LET common_tree == add_ops(State_new, common)
    IN  [left |-> add_ops(common_tree, left), right |-> add_ops(common_tree, right)]

\* ------------------------------------------------------------- core.rs
\* The connections an Odyssey node accepts or opens.
MaxConns == 3

ConnIds == 1 .. MaxConns

\* The devices that complete a handshake with the node.
DeviceIds == {"d1", "d2"}

\* An insert that takes every key for vacant.
try_insert_always(map, key, value) ==
    [map |-> (key :> value) @@ map, ok |-> TRUE]

\* An occupied key is reported, but its value is replaced.
try_insert_replace(map, key, value) ==
    [map |-> (key :> value) @@ map, ok |-> key \notin DOMAIN map]

\* BTreeMap::try_insert: the map it leaves and whether the key was vacant.
try_insert(map, key, value) ==
    IF key \in DOMAIN map THEN [map |-> map, ok |-> FALSE]
    ELSE [map |-> (key :> value) @@ map, ok |-> TRUE]

\* A registration that admits every connection.
initiate_peer_always(peer_id, chan, peer_state) ==
    [peer_state |-> (peer_id :> chan) @@ peer_state, recv |-> Some(chan)]

\* initiate_peer under the write lock of peer_state: `send` and `recv` are the
\* halves of the channel it has just created, named by the connection that
\* created them. The result is the registry and the Option it returns.
initiate_peer(peer_id, chan, peer_state) ==
    LET inserted == try_insert(peer_state, peer_id, chan)
    IN  [peer_state |-> inserted.map,
         recv       |-> IF inserted.ok THEN Some(chan) ELSE None]

\* The DeviceId of the node itself.
device_id == "d0"

\* The devices at the other end of a connection: a node can reach itself.
Remotes == DeviceIds \cup {device_id}

\* run_handshake_server / run_handshake_client against the device `remote`:
\* the peer's id, or HandshakeError::ConnectingToSelf.
run_handshake(remote, own_id) ==
    [ok |-> remote # own_id, peer_id |-> remote]

\* A task that carries on after a failed handshake.
handshake_match_ignore(conn, handshake_result) ==
    [conn EXCEPT !.pc = "initiate", !.peer_id = handshake_result.peer_id,
                 !.handshake = "ok"]

\* The match on handshake_result in both connection tasks: Ok(r) goes on to
\* initiate_peer, Err(ConnectingToSelf) returns.
handshake_match(conn, handshake_result) ==
    IF handshake_result.ok
    THEN [conn EXCEPT !.pc = "initiate", !.peer_id = handshake_result.peer_id,
                      !.handshake = "ok"]
    ELSE [conn EXCEPT !.pc = "closed", !.handshake = "ConnectingToSelf"]

\* A connection task that has not been spawned.
NoConn ==
    [pc |-> "idle", role |-> "none", handshake |-> "pending", peer_id |-> "none",
     recv |-> None]

\* The calls of create_store and connect_to_store on one Odyssey.
MaxCalls == 3

CallIds == 1 .. MaxCalls

\* The ids new_syncing generates and connect_to_store is given.
StoreIds == {"s1", "s2"}

\* StoreStatus: Running names the handler task and the channel launch_store
\* made; both are named by the call that made them.
Initializing == [status |-> "Initializing"]

Running(store_handle, send_command_chan) ==
    [status |-> "Running", store_handle |-> store_handle,
     send_command_chan |-> send_command_chan]

command_channel(status) ==
    IF status.status = "Initializing" THEN None ELSE Some(status.send_command_chan)

\* A marking that takes the entry over.
mark_initializing_insert(active_stores, store_id) ==
    [map |-> (store_id :> Initializing) @@ active_stores,
     ok  |-> store_id \notin DOMAIN active_stores]

\* The closure create_store and connect_to_store pass to send_if_modified:
\* the registry it leaves and whether the id was free.
mark_initializing(active_stores, store_id) ==
    try_insert(active_stores, store_id, Initializing)

\* The closure launch_store passes to send_if_modified.
register_running(active_stores, store_id, store_handle, send_command_chan) ==
    (store_id :> Running(store_handle, send_command_chan)) @@ active_stores

\* The ports below 65535 a node is configured with, next to two low ones.
MaxPortsBelow == 11

\* for _ in 0..10 of bind_server_ipv4.
BIND_ATTEMPTS == 10

\* The largest u16.
PORT_MAX == 65535

ConfiguredPorts == {0, 8080} \cup ((PORT_MAX - MaxPortsBelow) .. PORT_MAX)

\* bind_server_ipv4 before its first iteration. `tried` lists the ports whose
\* bind failed, `listener` the port of the listener returned and `overflow`
\* whether port += 1 left the range of u16.
bind_new(port) ==
    [pc |-> "loop", start |-> port, port |-> port, tried |-> <<>>,
     listener |-> None, overflow |-> FALSE]

\* TcpListener::bind succeeded: the listener is returned.
bind_ok(b) == [b EXCEPT !.pc = "done", !.listener = Some(b.port)]

\* TcpListener::bind failed: port += 1 and the next iteration, or None after
\* the last one. At 65535 the addition overflows: a build with overflow
\* checks panics there (`wraps` false), one without wraps to 0.
bind_err(b, wraps) ==
    LET tried    == Append(b.tried, b.port)
        overflow == b.port = PORT_MAX
    IN  IF overflow /\ ~wraps
        THEN [b EXCEPT !.pc = "panic", !.tried = tried, !.overflow = TRUE]
        ELSE [b EXCEPT !.pc = IF Len(tried) = BIND_ATTEMPTS THEN "done" ELSE "loop",
                       !.port = (b.port + 1) % (PORT_MAX + 1),
                       !.tried = tried,
                       !.overflow = b.overflow \/ overflow]

\* ------------------------------------------------------------ twopmap.rs
\* The operation times (the keys of a TwoPMap are the times of its inserts).
MaxOpTime == 4

OpTimes == 1 .. MaxOpTime

\* The operations of the values of a map.
ValueOps == {"a", "b"}

\* TwoPMap::new; `panic` records that an unreachable!() was hit.
TwoPMap_new == [map |-> EmptyMap, tombstones |-> {}, panic |-> FALSE]

\* TwoPMapOp::key: an insert is keyed by its own time.
TwoPMapOp_key(op, op_time) == IF op.type = "Insert" THEN op_time ELSE op.key

\* V::apply of the values: the value keeps what was applied to it, in order.
V_apply(v, op_time, operation) == Append(v, <<op_time, operation>>)

\* A delete that leaves no tombstone.
TwoPMap_delete_forget(self, key) ==
    [self EXCEPT !.map = [k \in DOMAIN self.map \ {key} |-> self.map[k]]]

\* A delete that leaves the tombstone and the entry.
TwoPMap_delete_keep(self, key) ==
    [self EXCEPT !.tombstones = self.tombstones \cup {key}]

\* The Delete arm of apply: map.without(&key), tombstones.update(key).
TwoPMap_delete(self, key) ==
    [self EXCEPT !.map = [k \in DOMAIN self.map \ {key} |-> self.map[k]],
                 !.tombstones = self.tombstones \cup {key}]

\* <TwoPMap as CRDT>::apply.
TwoPMap_apply(self, op_time, op) ==
    IF self.panic THEN self
    ELSE IF TwoPMapOp_key(op, op_time) \in self.tombstones THEN self
    ELSE IF op.type = "Insert"
    THEN IF op_time \in DOMAIN self.map THEN [self EXCEPT !.panic = TRUE]
         ELSE [self EXCEPT !.map = (op_time :> op.value) @@ self.map]
    ELSE IF op.type = "Apply"
    THEN IF op.key \notin DOMAIN self.map THEN [self EXCEPT !.panic = TRUE]
         ELSE [self EXCEPT !.map[op.key] = V_apply(@, op_time, op.operation)]
    ELSE TwoPMap_delete(self, op.key)

\* The operations a replica can receive next under causal delivery: an insert,
\* or an update or a delete of a key whose insert it has applied, whether or not
\* it has applied a delete of that key since.
Deliverable(self) ==
    {[type |-> "Insert", value |-> <<>>]}
    \cup {[type |-> "Apply", key |-> k, operation |-> o] :
            k \in DOMAIN self.map \cup self.tombstones, o \in ValueOps}
    \cup {[type |-> "Delete", key |-> k] : k \in DOMAIN self.map \cup self.tombstones}

\* TwoPMap::get.
TwoPMap_get(self, key) ==
    IF key \in DOMAIN self.map THEN Some(self.map[key]) ELSE None

\* The operations of any sequence of apply calls: an insert, or an update or a
\* delete of any key.
AnyOps ==
    {[type |-> "Insert", value |-> <<>>]}
    \cup {[type |-> "Apply", key |-> k, operation |-> o] : k \in OpTimes, o \in ValueOps}
    \cup {[type |-> "Delete", key |-> k] : k \in OpTimes}

\* A call that has not been made.
NoCall_store ==
    [op |-> "none", pc |-> "idle", store_id |-> "none", launched |-> FALSE]

\* SharedState and active_stores of Odyssey::start; no connection and no
\* call yet.
core_new ==
    [peer_state    |-> EmptyMap,
     conn          |-> [c \in ConnIds |-> NoConn],
     active_stores |-> EmptyMap,
     call          |-> [k \in CallIds |-> NoCall_store],
     bind          |-> bind_new(0),
     crdt          |-> [state |-> TwoPMap_new, causal_state |-> {}],
     cross         |-> [n \in DeviceIds |->
                          [peer_state |-> EmptyMap,
                           conn       |-> [c \in DeviceIds |-> NoConn]]]]

\* ------------------------------------------------------------------ state
VARIABLES
    st,         \* st.left, st.right: the two stores' ecg::State
    last,       \* the last local insert_header call: was the header valid, the result
    init,       \* the two DAGs as they were when the session was set up
    our_tips,   \* the tips each side read when the session was set up
    core,       \* the peer registry and the connection tasks of an Odyssey node
    pc,         \* where each side of the session is
    sync,       \* each side's session variables
    inbox,      \* the messages sent to each side and not yet received
    sent_done,  \* is_done of the last message each side sent
    result      \* what each side's session returned

vars == <<st, last, init, our_tips, core, pc, sync, inbox, sent_done, result>>

Sides == {"left", "right"}

\* run_ecg_sync: st1, the left tree, runs the server; st2 runs the client.
server == "left"

client == "right"

Peer(side) == IF side = "left" THEN "right" ELSE "left"

NoCall == [op |-> "none", valid |-> FALSE, ret |-> FALSE]

U16_MAX == 65535

InitLocal ==
    /\ st = [left |-> State_new, right |-> State_new]
    /\ last = NoCall
    /\ init = st
    /\ our_tips = [side \in Sides |-> tips(st[side])]
    /\ core = core_new
    /\ pc = [left |-> "local", right |-> "local"]
    /\ sync = [left |-> ECGSyncState_new, right |-> ECGSyncState_new]
    /\ inbox = [left |-> <<>>, right |-> <<>>]
    /\ sent_done = [left |-> FALSE, right |-> FALSE]
    /\ result = [left |-> "none", right |-> "none"]

\* A session between two trees built as test_helper builds them.
InitSync ==
    /\ \E table \in Tables :
         \E L \in Prefixes(table), R \in Prefixes(table) :
            st = test_helper(Ops(table, L \cap R), Ops(table, L \ R), Ops(table, R \ L))
    /\ last = NoCall
    /\ init = st
    /\ our_tips = [side \in Sides |-> tips(st[side])]
    /\ core = core_new
    /\ pc = [left |-> "recv_request", right |-> "start"]
    /\ sync = [left |-> ECGSyncState_new, right |-> ECGSyncState_new]
    /\ inbox = [left |-> <<>>, right |-> <<>>]
    /\ sent_done = [left |-> FALSE, right |-> FALSE]
    /\ result = [left |-> "none", right |-> "none"]

\* The tips as the specification defines them: the nodes without children.
\* State::tips does not report them; a session set up with them runs the
\* handlers on a probe queue that is not empty.
childless_tips(s) ==
    {n \in DOMAIN s.node_info_map : get_children_with_depth(s, n).val = <<>>}

\* A session between two trees built as test_helper builds them, each side's
\* probe queue and tip count taken from its childless nodes.
InitPeer ==
    /\ \E table \in Tables :
         \E L \in Prefixes(table), R \in Prefixes(table) :
            st = test_helper(Ops(table, L \cap R), Ops(table, L \ R), Ops(table, R \ L))
    /\ last = NoCall
    /\ init = st
    /\ our_tips = [side \in Sides |-> childless_tips(st[side])]
    /\ core = core_new
    /\ pc = [left |-> "recv_request", right |-> "start"]
    /\ sync = [left |-> ECGSyncState_new, right |-> ECGSyncState_new]
    /\ inbox = [left |-> <<>>, right |-> <<>>]
    /\ sent_done = [left |-> FALSE, right |-> FALSE]
    /\ result = [left |-> "none", right |-> "none"]

\* A store that holds some headers of the cross table, about to handle one Sync
\* message of a remote peer that has one tip left to announce.
InitRemote ==
    /\ \E L \in Prefixes(TableCross) :
         st = [left |-> add_ops(State_new, Ops(TableCross, L)), right |-> State_new]
    /\ last = NoCall
    /\ init = st
    /\ our_tips = [side \in Sides |-> tips(st[side])]
    /\ core = core_new
    /\ pc = [left |-> "remote", right |-> "local"]
    /\ sync = [left  |-> [ECGSyncState_new EXCEPT !.their_tips_remaining = 1],
               right |-> ECGSyncState_new]
    /\ inbox = [left |-> <<>>, right |-> <<>>]
    /\ sent_done = [left |-> FALSE, right |-> FALSE]
    /\ result = [left |-> "none", right |-> "none"]

\* What a remote peer may send: headers and ids of the cross table.
TableHeaders == {Header(id, TableCross[id + 1]) : id \in TableIds(TableCross)}

RemoteHaves == UNION {[1 .. n -> TableIds(TableCross)] : n \in 0 .. MaxRemoteHave}

RemoteHeaders == UNION {[1 .. n -> TableHeaders] : n \in 0 .. MaxRemoteHeaders}

\* The bitmap of the peer's message: its first bit is set.
RemoteKnowns == {{0}}

\* The <<header_id, header>> pairs offered to insert_header locally: a header
\* under its own id, with any parent list,
ValidOffers ==
    {<<header_id, Header(header_id, parent_ids)>> :
        header_id \in HeaderIds, parent_ids \in ParentLists}

\* and a header under the id before its own, with up to one parent.
InvalidOffers ==
    {<<header_id, Header((header_id + 1) % NumIds, parent_ids)>> :
        header_id \in HeaderIds, parent_ids \in {p \in ParentLists : Len(p) <= 1}}

Offers == ValidOffers \cup InvalidOffers

\* A local insert: the store applies a header to its DAG.
Insert(header_id, header) ==
    LET r == insert_header(st.left, header_id, header)
    IN  /\ pc.left = "local"
        /\ st' = [st EXCEPT !.left = r.st]
        /\ last' = [op |-> "insert",
                    valid |-> validate_header(header, header_id), ret |-> r.ret]
        /\ UNCHANGED <<init, our_tips, core, pc, sync, inbox, sent_done, result>>

\* Headers offered locally under their own id.
LocalInsert ==
    \E offer \in ValidOffers : Insert(offer[1], offer[2])

\* Headers offered locally under another id than their own: they fail
\* validation whatever their parents are.
LocalInsertInvalid ==
    \E offer \in InvalidOffers : Insert(offer[1], offer[2])

\* The probe queue at session start: our tips, at distance 0.
SeedQueue(s, tip_set) ==
    heap_extend(<<>>, [i \in 1 .. Cardinality(tip_set) |->
        LET id == Ascending(tip_set)[i]
        IN  <<TRUE, s.node_info_map[id].depth, id, 0>>])

\* u16::try_from(usize).
u16_try_from(n) == IF n <= U16_MAX THEN Some(n) ELSE None

\* A session start that ends without an error when the tips cannot be counted.
tip_count_silent(tip_set) ==
    [count |-> u16_try_from(Cardinality(tip_set)), err |-> "Ok"]

\* The tip count a session starts with: the number of our tips as a u16, or
\* the error the session ends with.
tip_count(tip_set) ==
    [count |-> u16_try_from(Cardinality(tip_set)), err |-> "TooManyTips"]

RequestMessage(tip_set, haves) ==
    [kind |-> "Request", tip_count |-> tip_count(tip_set).count.val, have |-> haves]

ClientSend(q, req) ==
    /\ sync' = [sync EXCEPT ![client] = [@ EXCEPT !.queue = q.queue, !.haves = q.haves]]
    /\ inbox' = [inbox EXCEPT ![server] = Append(@, req)]
    /\ sent_done' = [sent_done EXCEPT ![client] = is_done(req)]
    /\ pc' = [pc EXCEPT ![client] = IF q.panic THEN "panic" ELSE "wait"]
    /\ result' = result

ClientRequest(q) == ClientSend(q, RequestMessage(our_tips[client], q.haves))

\* ecg_sync_client up to its first send: the Request with our tip count and
\* the first haves.
ClientStart ==
    /\ pc[client] = "start"
    /\ IF ~tip_count(our_tips[client]).count.some
       THEN /\ pc' = [pc EXCEPT ![client] = "done"]
            /\ result' = [result EXCEPT ![client] = tip_count(our_tips[client]).err]
            /\ UNCHANGED <<sync, inbox, sent_done>>
       ELSE ClientRequest(prepare_haves(st[client],
                                          SeedQueue(st[client], our_tips[client]), {}))
    /\ UNCHANGED <<st, last, init, our_tips, core>>

\* The Sync message a side sends after a round.
SyncMessage(e) ==
    [kind |-> "Sync", sync |-> MsgECGSyncData(e.haves, e.known_bitmap, e.headers)]

\* The end of a round of `side`: it has handled msg, r is what the handler
\* left, out is the reply. The reply is sent; the side stops when the last
\* message of each direction is done.
Reply(side, msg, r, out) ==
    /\ st' = [st EXCEPT ![side] = r.st]
    /\ sync' = [sync EXCEPT ![side] = r.sync]
    /\ inbox' = IF r.panic THEN [inbox EXCEPT ![side] = Tail(@)]
                ELSE [inbox EXCEPT ![side] = Tail(@), ![Peer(side)] = Append(@, out)]
    /\ sent_done' = [sent_done EXCEPT ![side] = is_done(out)]
    /\ pc' = [pc EXCEPT ![side] =
                IF r.panic THEN "panic"
                ELSE IF is_done(msg) /\ is_done(out) THEN "done" ELSE "wait"]
    /\ result' = [result EXCEPT ![side] =
                    IF ~r.panic /\ is_done(msg) /\ is_done(out) THEN "Ok" ELSE @]

\* The server's answer to the Request: the client's haves are handled as in
\* every later round, on fresh session variables and the probe queue of our tips.
ServerFirstRound(req, s) ==
    sync_received_have(req, [ECGSyncState_new EXCEPT !.their_tips_remaining = req.tip_count,
                                                     !.queue = SeedQueue(s, our_tips[server])],
                       s, [their_known |-> {}, panic |-> FALSE])

ResponseMessage(s, e) ==
    [kind |-> "Response", tip_count |-> tip_count(our_tips[server]).count.val,
     sync |-> MsgECGSyncData(e.haves, e.known_bitmap, e.headers)]

ServerReply(req, r) == Reply(server, req, r, ResponseMessage(r.st, r.sync))

\* ecg_sync_server on the Request: record the client's tip count, answer its
\* haves, and send the Response with our tip count, haves and headers.
ServerReceiveRequest ==
    /\ pc[server] = "recv_request"
    /\ inbox[server] # <<>>
    /\ IF ~tip_count(our_tips[server]).count.some
       THEN /\ pc' = [pc EXCEPT ![server] = "done"]
            /\ result' = [result EXCEPT ![server] = tip_count(our_tips[server]).err]
            /\ inbox' = [inbox EXCEPT ![server] = Tail(@)]
            /\ UNCHANGED <<st, sync, sent_done>>
       ELSE ServerReply(Head(inbox[server]),
                        ServerFirstRound(Head(inbox[server]), st[server]))
    /\ UNCHANGED <<last, init, our_tips, core>>

\* The session variables of a side when it takes up msg: a Response carries
\* the server's tip count.
OnMessage(e, msg) ==
    IF msg.kind = "Response" THEN [e EXCEPT !.their_tips_remaining = msg.tip_count]
    ELSE e

SyncReply(side, msg, r) == Reply(side, msg, r, SyncMessage(r.sync))

\* One round of either side: receive the peer's Response or Sync; stop when the
\* last message of each direction is done; otherwise handle it and send a Sync.
ReceiveSync(side) ==
    /\ pc[side] = "wait"
    /\ inbox[side] # <<>>
    /\ IF is_done(Head(inbox[side])) /\ sent_done[side]
       THEN /\ pc' = [pc EXCEPT ![side] = "done"]
            /\ result' = [result EXCEPT ![side] = "Ok"]
            /\ inbox' = [inbox EXCEPT ![side] = Tail(@)]
            /\ sync' = [sync EXCEPT ![side] = OnMessage(@, Head(inbox[side]))]
            /\ UNCHANGED <<st, sent_done>>
       ELSE SyncReply(side, Head(inbox[side]),
                handle_received_ecg_sync(Head(inbox[side]).sync, st[side],
                                         OnMessage(sync[side], Head(inbox[side]))))
    /\ UNCHANGED <<last, init, our_tips, core>>

Receive == \E side \in Sides : ReceiveSync(side)

RemoteReply(r) ==
    /\ st' = [st EXCEPT !.left = r.st]
    /\ sync' = [sync EXCEPT !.left = r.sync]
    /\ pc' = [pc EXCEPT !.left = IF r.panic THEN "panic" ELSE "replied"]

\* A store in a session with a remote peer: the peer's Sync message is any
\* message of the wire format, handled by handle_received_ecg_sync.
RemoteSync ==
    /\ pc.left = "remote"
    /\ \E have \in RemoteHaves, known \in RemoteKnowns, headers \in RemoteHeaders :
         RemoteReply(handle_received_ecg_sync(MsgECGSyncData(have, known, headers),
                                              st.left, sync.left))
    /\ UNCHANGED <<last, init, our_tips, core, inbox, sent_done, result>>

\* A store that holds some headers of the cross table and starts a session, as
\* the client, with a remote peer; its probe queue is seeded with its
\* childless nodes.
InitClient(held) ==
    /\ \E R \in held :
         st = [left |-> State_new, right |-> add_ops(State_new, Ops(TableCross, R))]
    /\ last = NoCall
    /\ init = st
    /\ our_tips = [side \in Sides |-> childless_tips(st[side])]
    /\ core = core_new
    /\ pc = [left |-> "remote", right |-> "start"]
    /\ sync = [left |-> ECGSyncState_new, right |-> ECGSyncState_new]
    /\ inbox = [left |-> <<>>, right |-> <<>>]
    /\ sent_done = [left |-> FALSE, right |-> FALSE]
    /\ result = [left |-> "none", right |-> "none"]

\* The store holds any headers of the cross table.
InitRounds == InitClient(Prefixes(TableCross))

\* The store holds the headers without parents: none, 0, 2 or both.
InitLong == InitClient(SUBSET {0, 2})

\* What the remote peer sends in one round: up to two different haves, or one
\* header.
RoundHaves ==
    {<<>>} \cup {<<id>> : id \in TableIds(TableCross)}
           \cup {have \in [1 .. 2 -> TableIds(TableCross)] : have[1] # have[2]}

RoundMessages ==
    {MsgECGSyncData(have, known, <<>>) : have \in RoundHaves, known \in RemoteKnowns}
        \cup {MsgECGSyncData(<<>>, known, <<header>>) :
                 known \in RemoteKnowns, header \in TableHeaders}

\* The remote peer takes the store's message and sends its next message, one of
\* sync_msgs: a Response that announces one tip to the Request, a Sync to a Sync.
RemoteSends(sync_msgs) ==
    /\ inbox[client] = <<>> /\ inbox[server] # <<>>
    /\ \E sync_msg \in sync_msgs :
         inbox' = [inbox EXCEPT
                     ![server] = <<>>,
                     ![client] = <<IF Head(inbox[server]).kind = "Request"
                                   THEN [kind |-> "Response", tip_count |-> 1,
                                         sync |-> sync_msg]
                                   ELSE [kind |-> "Sync", sync |-> sync_msg]>>]
    /\ UNCHANGED <<st, last, init, our_tips, core, pc, sync, sent_done, result>>

\* Any message of the wire format within the limits.
RemoteSend ==
    /\ pc[client] = "wait" /\ pc[server] = "remote"
    /\ RemoteSends(RoundMessages)

\* The longest have list the remote peer sends.
MaxHaveLen == 34

\* Have lists of any length: header 0 or header 2, over and over.
LongHaves ==
    {[i \in 1 .. n |-> id] : n \in 0 .. MaxHaveLen, id \in {0, 2}}

\* Messages whose have list is as long as the sender likes.
RemoteSendLong ==
    /\ pc[client] = "wait" /\ pc[server] = "remote"
    /\ RemoteSends({MsgECGSyncData(have, {}, <<>>) : have \in LongHaves})

\* A DAG of n headers without parents.
\* It is what add_ops leaves for the ops (0, []), ..., (n-1, []).
wide_dag(n) ==
    [dependency_graph |-> [nodes |-> [i \in 1 .. n |-> i - 1], edges |-> <<>>],
     root_nodes       |-> 0 .. (n - 1),
     node_info_map    |-> [id \in 0 .. (n - 1) |-> NodeInfo(id, 1, Header(id, <<>>))],
     tips             |-> {}]

\* A session in which one side holds one header more than a u16 counts, all
\* of them without parents and so without children; the other side is empty.
InitManyTips ==
    /\ \E many \in Sides :
         /\ st = [side \in Sides |->
                    IF side = many THEN wide_dag(U16_MAX + 1) ELSE State_new]
         /\ our_tips = [side \in Sides |->
                    IF side = many THEN 0 .. U16_MAX ELSE {}]
    /\ last = NoCall
    /\ init = st
    /\ core = core_new
    /\ pc = [left |-> "recv_request", right |-> "start"]
    /\ sync = [left |-> ECGSyncState_new, right |-> ECGSyncState_new]
    /\ inbox = [left |-> <<>>, right |-> <<>>]
    /\ sent_done = [left |-> FALSE, right |-> FALSE]
    /\ result = [left |-> "none", right |-> "none"]

\* The longest chain of headers a store holds.
MaxChain == 40

\* A chain of n headers: header 0 has no parent, header i the parent i - 1.
\* It is what add_ops leaves for the ops (0, []), (1, [0]), ..., (n-1, [n-2]).
chain_dag(n) ==
    [dependency_graph |-> [nodes |-> [i \in 1 .. n |-> i - 1],
                           edges |-> [i \in 1 .. (n - 1) |-> <<i - 1, i>>]],
     root_nodes       |-> IF n = 0 THEN {} ELSE {0},
     node_info_map    |-> [id \in 0 .. (n - 1) |->
                             NodeInfo(id, id + 1,
                                      Header(id, IF id = 0 THEN <<>> ELSE <<id - 1>>))],
     tips             |-> {}]

\* What a peer is known to have of a chain of n headers: nothing, the
\* headers up to one of them, or one header alone.
ChainKnown(n) ==
    {{}} \cup {0 .. k : k \in 0 .. (n - 1)} \cup {{k} : k \in 0 .. (n - 1)}

\* A store with a chain of up to MaxChain headers whose probe queue holds the
\* tip of the chain: the input of prepare_haves at the start of a session.
InitChain ==
    /\ \E n \in 1 .. MaxChain :
         /\ st = [left |-> chain_dag(n), right |-> State_new]
         /\ our_tips = [left |-> {n - 1}, right |-> {}]
         /\ \E known \in ChainKnown(n) :
              sync = [left  |-> [ECGSyncState_new EXCEPT
                                   !.queue = SeedQueue(st.left, {n - 1}),
                                   !.their_known = known],
                      right |-> ECGSyncState_new]
    /\ last = NoCall
    /\ init = st
    /\ core = core_new
    /\ pc = [left |-> "prepare", right |-> "local"]
    /\ inbox = [left |-> <<>>, right |-> <<>>]
    /\ sent_done = [left |-> FALSE, right |-> FALSE]
    /\ result = [left |-> "none", right |-> "none"]

\* The send queue that holds every node of a DAG with its depth.
FullSendQueue(s) ==
    heap_extend(<<>>, [i \in 1 .. Cardinality(DOMAIN s.node_info_map) |->
        LET id == Ascending(DOMAIN s.node_info_map)[i]
        IN  <<s.node_info_map[id].depth, id>>])

\* A store with up to MaxWide headers, none known to the peer, all of them in
\* its probe queue and in its send queue: the inputs of prepare_haves and
\* prepare_headers with more entries than a message takes.
InitWide ==
    /\ \E n \in 0 .. MaxWide :
         st = [left |-> wide_dag(n), right |-> State_new]
    /\ last = NoCall
    /\ init = st
    /\ our_tips = [side \in Sides |-> childless_tips(st[side])]
    /\ core = core_new
    /\ pc = [left |-> "prepare", right |-> "local"]
    /\ sync = [left  |-> [ECGSyncState_new EXCEPT
                            !.queue = SeedQueue(st.left, our_tips.left),
                            !.send_queue = FullSendQueue(st.left)],
               right |-> ECGSyncState_new]
    /\ inbox = [left |-> <<>>, right |-> <<>>]
    /\ sent_done = [left |-> FALSE, right |-> FALSE]
    /\ result = [left |-> "none", right |-> "none"]

PreparedHaves(q) ==
    /\ sync' = [sync EXCEPT !.left = [@ EXCEPT !.queue = q.queue, !.haves = q.haves]]
    /\ pc' = [pc EXCEPT !.left = IF q.panic THEN "panic" ELSE "prepare"]

\* prepare_haves on what is left of the probe queue.
PrepareHaves ==
    /\ pc.left = "prepare"
    /\ sync.left.queue # <<>>
    /\ PreparedHaves(prepare_haves(st.left, sync.left.queue, sync.left.their_known))
    /\ UNCHANGED <<st, last, init, our_tips, core, inbox, sent_done, result>>

PreparedHeaders(p) ==
    /\ sync' = [sync EXCEPT !.left = [@ EXCEPT !.send_queue = p.send_queue,
                                               !.their_known = p.their_known,
                                               !.headers = p.headers]]
    /\ pc' = [pc EXCEPT !.left = IF p.panic THEN "panic" ELSE "prepare"]

\* prepare_headers on what is left of the send queue.
PrepareHeaders ==
    /\ pc.left = "prepare"
    /\ sync.left.send_queue # <<>>
    /\ PreparedHeaders(prepare_headers(st.left, sync.left.send_queue,
                                       sync.left.their_known))
    /\ UNCHANGED <<st, last, init, our_tips, core, inbox, sent_done, result>>

NextWide == PrepareHaves \/ PrepareHeaders

\* An Odyssey node that has started: no store is involved.
InitCore ==
    /\ st = [left |-> State_new, right |-> State_new]
    /\ last = NoCall
    /\ init = st
    /\ our_tips = [side \in Sides |-> tips(st[side])]
    /\ core = core_new
    /\ pc = [left |-> "core", right |-> "core"]
    /\ sync = [left |-> ECGSyncState_new, right |-> ECGSyncState_new]
    /\ inbox = [left |-> <<>>, right |-> <<>>]
    /\ sent_done = [left |-> FALSE, right |-> FALSE]
    /\ result = [left |-> "none", right |-> "none"]

\* One step of connection task c; nothing of the stores changes.
ConnStep(c, conn, peer_state) ==
    /\ core' = [core EXCEPT !.conn[c] = conn, !.peer_state = peer_state]
    /\ UNCHANGED <<st, last, init, our_tips, pc, sync, inbox, sent_done, result>>

\* The accept loop of Odyssey::start spawns the task of an incoming connection.
Accept(c) ==
    /\ pc.left = "core"
    /\ core.conn[c].pc = "idle"
    /\ ConnStep(c, [core.conn[c] EXCEPT !.pc = "handshake", !.role = "server"],
                core.peer_state)

\* connect_to_peer_ipv4 spawns the task of an outgoing connection; a failed
\* TcpStream::connect ends it in todo!().
Connect(c) ==
    /\ pc.left = "core"
    /\ core.conn[c].pc = "idle"
    /\ \E connected \in BOOLEAN :
         ConnStep(c, [core.conn[c] EXCEPT
                        !.pc = IF connected THEN "handshake" ELSE "panic",
                        !.role = "client"],
                  core.peer_state)

\* The handshake returns: with the peer's id, or with ConnectingToSelf, on
\* which the task returns.
Handshake(c) ==
    /\ core.conn[c].pc = "handshake"
    /\ \E remote \in Remotes :
         ConnStep(c, handshake_match(core.conn[c], run_handshake(remote, device_id)),
                  core.peer_state)

Initiated(c, r) ==
    ConnStep(c, [core.conn[c] EXCEPT
                   !.pc = IF r.recv.some THEN "miniprotocols" ELSE "closed",
                   !.recv = r.recv],
             r.peer_state)

\* Store peer in state: with Some(recv) the task starts the mini-protocols,
\* with None it logs "Already connected to peer" and returns.
InitiatePeer(c) ==
    /\ core.conn[c].pc = "initiate"
    /\ Initiated(c, initiate_peer(core.conn[c].peer_id, c, core.peer_state))

\* run_miniprotocols_server / run_miniprotocols_client returns (the session
\* ended or the transport failed) and the task ends with it.
MiniprotocolsEnd(c) ==
    /\ core.conn[c].pc = "miniprotocols"
    /\ ConnStep(c, [core.conn[c] EXCEPT !.pc = "closed"], core.peer_state)

NextCore ==
    \E c \in ConnIds :
        Accept(c) \/ Connect(c) \/ Handshake(c) \/ InitiatePeer(c) \/ MiniprotocolsEnd(c)

\* Two Odyssey nodes, d1 and d2, and the two connections between them, each
\* named by the node that opens it. core.cross[n] holds node n's registry and
\* its task for each connection.
Other(n) == IF n = "d1" THEN "d2" ELSE "d1"

\* One step of node n's task for connection c; nothing else changes.
CrossStep(n, c, conn, peer_state) ==
    /\ core' = [core EXCEPT !.cross[n] = [peer_state |-> peer_state,
                                          conn |-> [core.cross[n].conn EXCEPT ![c] = conn]]]
    /\ UNCHANGED <<st, last, init, our_tips, pc, sync, inbox, sent_done, result>>

\* Node n calls connect_to_peer_ipv4 for the other node: the task of its own
\* connection starts; a failed TcpStream::connect ends it in todo!().
CrossConnect(n) ==
    /\ pc.left = "core"
    /\ core.cross[n].conn[n].pc = "idle"
    /\ \E connected \in BOOLEAN :
         CrossStep(n, n, [core.cross[n].conn[n] EXCEPT
                            !.pc = IF connected THEN "handshake" ELSE "panic",
                            !.role = "client"],
                   core.cross[n].peer_state)

\* The accept loop of node n takes the connection the other node has opened.
CrossAccept(n) ==
    /\ core.cross[n].conn[Other(n)].pc = "idle"
    /\ core.cross[Other(n)].conn[Other(n)].pc \notin {"idle", "panic"}
    /\ CrossStep(n, Other(n),
                 [core.cross[n].conn[Other(n)] EXCEPT !.pc = "handshake",
                                                      !.role = "server"],
                 core.cross[n].peer_state)

\* The handshake of connection c returns on node n, with the other node's id;
\* the other end has taken up the connection.
CrossHandshake(n, c) ==
    /\ core.cross[n].conn[c].pc = "handshake"
    /\ core.cross[Other(n)].conn[c].pc # "idle"
    /\ CrossStep(n, c, handshake_match(core.cross[n].conn[c],
                                       run_handshake(Other(n), n)),
                 core.cross[n].peer_state)

CrossInitiated(n, c, r) ==
    CrossStep(n, c, [core.cross[n].conn[c] EXCEPT
                       !.pc = IF r.recv.some THEN "miniprotocols" ELSE "closed",
                       !.recv = r.recv],
              r.peer_state)

\* Node n's task for connection c stores the peer in its own registry.
CrossInitiatePeer(n, c) ==
    /\ core.cross[n].conn[c].pc = "initiate"
    /\ CrossInitiated(n, c, initiate_peer(core.cross[n].conn[c].peer_id, c,
                                         core.cross[n].peer_state))

\* The mini-protocols of connection c return on node n: the other end has
\* dropped the connection.
CrossEnd(n, c) ==
    /\ core.cross[n].conn[c].pc = "miniprotocols"
    /\ core.cross[Other(n)].conn[c].pc = "closed"
    /\ CrossStep(n, c, [core.cross[n].conn[c] EXCEPT !.pc = "closed"],
                 core.cross[n].peer_state)

NextCross ==
    \E n \in DeviceIds :
        \/ CrossConnect(n) \/ CrossAccept(n)
        \/ \E c \in DeviceIds :
              CrossHandshake(n, c) \/ CrossInitiatePeer(n, c) \/ CrossEnd(n, c)

\* One step of call k on the Odyssey; nothing else changes.
CallStep(k, call, active_stores) ==
    /\ core' = [core EXCEPT !.call[k] = call, !.active_stores = active_stores]
    /\ UNCHANGED <<st, last, init, our_tips, pc, sync, inbox, sent_done, result>>

\* create_store is called; a retry re-enters here.
CreateStore(k) ==
    /\ pc.left = "core"
    /\ core.call[k].pc = "idle"
    /\ CallStep(k, [core.call[k] EXCEPT !.op = "create_store", !.pc = "new_syncing"],
                core.active_stores)

\* new_syncing generates a nonce and with it the store id.
NewSyncing(k) ==
    /\ core.call[k].pc = "new_syncing"
    /\ \E store_id \in StoreIds :
         CallStep(k, [core.call[k] EXCEPT !.pc = "check", !.store_id = store_id],
                  core.active_stores)

\* connect_to_store is called with a store id.
ConnectToStore(k) ==
    /\ pc.left = "core"
    /\ core.call[k].pc = "idle"
    /\ \E store_id \in StoreIds :
         CallStep(k, [core.call[k] EXCEPT !.op = "connect_to_store", !.pc = "check",
                                         !.store_id = store_id],
                  core.active_stores)

Checked(k, r) ==
    CallStep(k, [core.call[k] EXCEPT
                   !.pc = IF r.ok THEN "launch"
                          ELSE IF core.call[k].op = "create_store" THEN "new_syncing"
                          ELSE "panic"],
             r.map)

\* Mark the store as initializing: create_store starts over when the id is
\* taken, connect_to_store ends in todo!().
CheckStore(k) ==
    /\ core.call[k].pc = "check"
    /\ Checked(k, mark_initializing(core.active_stores, core.call[k].store_id))

\* launch_store creates the channels and spawns the handler task.
LaunchSpawn(k) ==
    /\ core.call[k].pc = "launch"
    /\ CallStep(k, [core.call[k] EXCEPT !.pc = "register", !.launched = TRUE],
                core.active_stores)

\* launch_store registers the store as Running and returns the StoreHandle.
LaunchRegister(k) ==
    /\ core.call[k].pc = "register"
    /\ CallStep(k, [core.call[k] EXCEPT !.pc = "done"],
                register_running(core.active_stores, core.call[k].store_id, k, k))

NextStore ==
    \E k \in CallIds :
        \/ CreateStore(k) \/ NewSyncing(k) \/ ConnectToStore(k)
        \/ CheckStore(k) \/ LaunchSpawn(k) \/ LaunchRegister(k)

\* Odyssey::start binds the server socket of the configured port.
InitBind ==
    /\ st = [left |-> State_new, right |-> State_new]
    /\ last = NoCall
    /\ init = st
    /\ our_tips = [side \in Sides |-> tips(st[side])]
    /\ \E port \in ConfiguredPorts : core = [core_new EXCEPT !.bind = bind_new(port)]
    /\ pc = [left |-> "bind", right |-> "bind"]
    /\ sync = [left |-> ECGSyncState_new, right |-> ECGSyncState_new]
    /\ inbox = [left |-> <<>>, right |-> <<>>]
    /\ sent_done = [left |-> FALSE, right |-> FALSE]
    /\ result = [left |-> "none", right |-> "none"]

BindStep(b) ==
    /\ core' = [core EXCEPT !.bind = b]
    /\ UNCHANGED <<st, last, init, our_tips, pc, sync, inbox, sent_done, result>>

\* One iteration whose bind succeeds.
BindOk ==
    /\ core.bind.pc = "loop"
    /\ BindStep(bind_ok(core.bind))

\* One iteration whose bind fails.
BindErr ==
    /\ core.bind.pc = "loop"
    /\ \E wraps \in BOOLEAN : BindStep(bind_err(core.bind, wraps))

NextBind == BindOk \/ BindErr

\* A store applies the next operation to its TwoPMap, at a time no operation
\* before it had.
ApplyOp ==
    /\ pc.left = "core"
    /\ \E op_time \in OpTimes \ core.crdt.causal_state :
         \E op \in Deliverable(core.crdt.state) :
            core' = [core EXCEPT
                       !.crdt = [state |-> TwoPMap_apply(core.crdt.state, op_time, op),
                                 causal_state |-> core.crdt.causal_state \cup {op_time}]]
    /\ UNCHANGED <<st, last, init, our_tips, pc, sync, inbox, sent_done, result>>

\* A TwoPMap is applied the next operation of any sequence, at a time no
\* operation before it had.
ApplyAny ==
    /\ pc.left = "core"
    /\ \E op_time \in OpTimes \ core.crdt.causal_state :
         \E op \in AnyOps :
            core' = [core EXCEPT
                       !.crdt = [state |-> TwoPMap_apply(core.crdt.state, op_time, op),
                                 causal_state |-> core.crdt.causal_state \cup {op_time}]]
    /\ UNCHANGED <<st, last, init, our_tips, pc, sync, inbox, sent_done, result>>

NextSync == ClientStart \/ ServerReceiveRequest \/ Receive

Init == InitLocal \/ InitSync \/ InitRemote

Next == LocalInsert \/ LocalInsertInvalid \/ NextSync \/ RemoteSync

\* Local inserts, sessions between two stores, and sessions with a remote peer.
Spec == Init /\ [][Next]_vars

\* Sessions between two stores whose probe queues hold their childless nodes.
PeerSpec == InitPeer /\ [][NextSync]_vars

\* prepare_haves and prepare_headers on queues longer than a message.
WideSpec == InitWide /\ [][NextWide]_vars

\* Sessions between two stores, also with more tips than a u16 counts.
TipsSpec == (InitPeer \/ InitManyTips) /\ [][NextSync]_vars

\* The rounds of one store in a session with a remote peer.
RoundsSpec == InitRounds /\ [][ClientStart \/ RemoteSend \/ Receive]_vars

\* The rounds of one store with a remote peer that sends have lists of any
\* length.
LongSpec == InitLong /\ [][ClientStart \/ RemoteSendLong \/ Receive]_vars

\* prepare_haves on chains of headers.
ChainSpec == InitChain /\ [][PrepareHaves]_vars

\* The connections of one Odyssey node.
CoreSpec == InitCore /\ [][NextCore]_vars

\* Two Odyssey nodes that connect to each other.
CrossSpec == InitCore /\ [][NextCross]_vars

\* The stores of one Odyssey node.
StoreSpec == InitCore /\ [][NextStore]_vars

\* The TwoPMap of one store under causal delivery.
MapSpec == InitCore /\ [][ApplyOp]_vars

\* The TwoPMap of one store under any sequence of operations.
AnyMapSpec == InitCore /\ [][ApplyAny]_vars

\* bind_server_ipv4 on every configured port and every outcome of the binds.
BindSpec == InitBind /\ [][NextBind]_vars

\* One session between two stores; a step a side can take is eventually taken
\* (each side is a task the runtime keeps polling).
SyncSpec ==
    /\ InitSync
    /\ [][NextSync]_vars
    /\ WF_vars(ClientStart)
    /\ WF_vars(ServerReceiveRequest)
    /\ WF_vars(Receive)

\* ------------------------------------------------------------- properties

Nodes(s) == DOMAIN s.node_info_map

\* The parents a node's stored header declares.
DeclaredParents(s, id) == Range(get_parent_ids(s.node_info_map[id].header))

\* The nodes without an edge to a child in the dependency graph.
Childless(s) == {n \in Nodes(s) : get_children_with_depth(s, n).val = <<>>}

\* The (id, header) pairs a DAG holds.
HeaderPairs(s) == {<<id, s.node_info_map[id].header>> : id \in Nodes(s)}

BothOk == result.left = "Ok" /\ result.right = "Ok"

\* C1: when a session between two stores has completed, both DAGs hold the
\* same headers, the union of the headers the two sides started with.
C1_SyncConverges ==
    BothOk =>
        /\ HeaderPairs(st.left) = HeaderPairs(st.right)
        /\ HeaderPairs(st.left) = HeaderPairs(init.left) \cup HeaderPairs(init.right)

C3_TipsAreChildless ==
    \A side \in Sides : tips(st[side]) = Childless(st[side])

\* C4: root_nodes is exactly the set of nodes whose header has no parents,
\* and every root is a node.
C4_RootsAreParentless ==
    \A side \in Sides :
        /\ st[side].root_nodes \subseteq Nodes(st[side])
        /\ st[side].root_nodes =
              {n \in Nodes(st[side]) :
                  get_parent_ids(st[side].node_info_map[n].header) = <<>>}

\* A DAG built by local inserts that has a root and a node that is no root.
C4_Witness ==
    /\ last.op = "insert"
    /\ st.left.root_nodes # {}
    /\ st.left.root_nodes # Nodes(st.left)

\* The depth rule in one DAG: 1 for a node without parents, else one more than
\* the least depth of its parents.
DepthRule(s) ==
    \A n \in Nodes(s) :
        s.node_info_map[n].depth =
            IF DeclaredParents(s, n) = {} THEN 1
            ELSE 1 + MinOf({s.node_info_map[p].depth :
                               p \in DeclaredParents(s, n) \cap Nodes(s)})

\* The depth of a node is the same after a step as before it.
DepthKept ==
    \A side \in Sides : \A n \in Nodes(st[side]) \cap Nodes(st'[side]) :
        st'[side].node_info_map[n].depth = st[side].node_info_map[n].depth

\* C5: every node's depth is 1 when it has no parents and 1 + the minimum of
\* its parents' depths otherwise, and no step changes the depth of a node.
C5_Depth ==
    /\ [](\A side \in Sides : DepthRule(st[side]))
    /\ [][DepthKept]_vars

\* A node inserted locally whose two parents have different depths.
C5_Witness ==
    /\ last.op = "insert"
    /\ \E n \in Nodes(st.left) : \E p, q \in DeclaredParents(st.left, n) :
          st.left.node_info_map[p].depth < st.left.node_info_map[q].depth

\* C6: every parent of a node is a node that was inserted strictly earlier, and
\* the edges of the graph lead from earlier to later nodes: the DAG is closed
\* under parents and has no cycle.
C6_ParentsInsertedEarlier ==
    \A side \in Sides : \A n \in Nodes(st[side]) :
        /\ \A p \in DeclaredParents(st[side], n) :
              /\ p \in Nodes(st[side])
              /\ st[side].node_info_map[p].graph_index
                    < st[side].node_info_map[n].graph_index
        /\ \A e \in Range(st[side].dependency_graph.edges) : e[1] < e[2]
        /\ Range(get_parents(st[side], n).val) = DeclaredParents(st[side], n)

\* A DAG built by local inserts that holds a node with two parents.
C6_Witness ==
    /\ last.op = "insert"
    /\ \E n \in Nodes(st.left) : Cardinality(DeclaredParents(st.left, n)) = 2

\* What insert_header does with one offer in one DAG, against the rule for it.
InsertRule(s, header_id, header, r) ==
    /\ r.ret <=> /\ validate_header(header, header_id)
                 /\ header_id \notin Nodes(s)
                 /\ Range(get_parent_ids(header)) \subseteq Nodes(s)
    /\ r.ret => /\ contains(r.st, header_id)
                /\ get_header(r.st, header_id) = Some(header)

\* C7: insert_header returns true exactly when the header validates, its id
\* is not a node yet and all its parents are nodes; then the id is contained
\* and get_header returns the inserted header.
C7_InsertReturnsTrueIff ==
    \A side \in Sides : \A offer \in Offers :
        InsertRule(st[side], offer[1], offer[2],
                   insert_header(st[side], offer[1], offer[2]))

\* A local insert has returned true in a DAG where another offer is refused
\* for a missing parent and a third for its id being a node already.
C7_Witness ==
    /\ last.op = "insert" /\ last.ret
    /\ \E offer \in ValidOffers :
          /\ offer[1] \notin Nodes(st.left)
          /\ ~(Range(get_parent_ids(offer[2])) \subseteq Nodes(st.left))
    /\ \E offer \in ValidOffers : offer[1] \in Nodes(st.left)

\* C8: an insert_header that returns false leaves nodes, roots, tips and edges
\* as they were; inserting a header whose id is a node already is such a call.
C8_RejectedInsertIsNoOp ==
    \A side \in Sides : \A offer \in Offers :
        LET r == insert_header(st[side], offer[1], offer[2])
        IN  /\ ~r.ret => r.st = st[side]
            /\ offer[1] \in Nodes(st[side]) => ~r.ret /\ r.st = st[side]

\* A valid header has just been refused locally by a DAG that holds every id:
\* a repeated insert.
C8_Witness ==
    /\ last.op = "insert" /\ last.valid /\ ~last.ret
    /\ Nodes(st.left) = HeaderIds
    /\ st.left.root_nodes # {}

NodesKept ==
    \A side \in Sides :
        \/ st'[side] = st[side]
        \/ \A id \in Nodes(st[side]) :
              /\ id \in Nodes(st'[side])
              /\ st'[side].node_info_map[id] = st[side].node_info_map[id]
              /\ get_parents_with_depth(st'[side], id) = get_parents_with_depth(st[side], id)

\* C10: the nodes of a DAG only grow: no local insert and no step of a sync
\* session removes a node or changes its header, parents or depth.
C10_NodesOnlyGrow == [][NodesKept]_vars

\* A store has handled a sync message of a remote peer and holds more nodes
\* than before, next to the ones it had.
C10_Witness ==
    /\ pc.left = "replied"
    /\ Nodes(init.left) # {}
    /\ Nodes(init.left) # Nodes(st.left)

\* The sets of nodes of a DAG that hold, with every id, its parents.
ClosedUnderParents(s, K) ==
    \A k \in K \cap Nodes(s) : DeclaredParents(s, k) \subseteq K

\* The ids together with all their ancestors in a DAG.
RECURSIVE WithAncestors(_, _)
WithAncestors(s, ids) ==
    LET up == ids \cup UNION {DeclaredParents(s, k) : k \in ids \cap Nodes(s)}
    IN  IF up = ids THEN ids ELSE WithAncestors(s, up)

\* C11: mark_as_known(h), for a node h and a their_known closed under parents,
\* leaves their_known with h and every ancestor of h, closed under parents
\* again; so their_known of a session is closed under parents in every state.
C11_MarkAsKnownClosure ==
    \A side \in Sides :
        /\ \A K \in SUBSET Nodes(st[side]) : \A h \in Nodes(st[side]) :
              ClosedUnderParents(st[side], K) =>
                 LET r == mark_as_known(st[side], K, h)
                 IN  /\ ~r.panic
                     /\ WithAncestors(st[side], {h}) \subseteq r.their_known
                     /\ ClosedUnderParents(st[side], r.their_known)
        /\ ClosedUnderParents(st[side], sync[side].their_known)

\* C12: their_known only grows within a session: no step of a side removes an
\* id from its their_known.
C12_TheirKnownGrows ==
    [][\A side \in Sides : sync[side].their_known \subseteq sync'[side].their_known]_vars

\* A side has marked ids in more than one round: its their_known holds ids
\* the peer announced and the ids of headers it has just delivered.
C12_Witness ==
    \E side \in Sides :
        /\ sync[side].headers # <<>>
        /\ \E id \in sync[side].their_known :
              \A i \in 1 .. Len(sync[side].headers) :
                 get_header_id(sync[side].headers[i]) # id

\* C13: their_known is sound: once the peer has received every message a side
\* has sent, the peer's DAG holds every id of the side's their_known.
C13_TheirKnownSound ==
    \A side \in Sides :
        inbox[Peer(side)] = <<>> =>
            sync[side].their_known \subseteq Nodes(st[Peer(side)])

\* The ids of the headers of a list from position i on.
IdsFrom(headers, i) == {get_header_id(headers[j]) : j \in i .. Len(headers)}

\* C14: parents before children in delivery: every parent of a header in an
\* outgoing headers list was known by the peer before the header was appended
\* or was delivered earlier in the session; it is in their_known and is not
\* a header of the same list at the same or a later position.
C14_ParentsBeforeChildren ==
    \A side \in Sides : \A i \in 1 .. Len(sync[side].headers) :
        Range(get_parent_ids(sync[side].headers[i]))
            \subseteq sync[side].their_known \ IdsFrom(sync[side].headers, i)

\* A side has handled the last message of its peer and its answer is on the way.
Answered(side) == inbox[side] = <<>> /\ inbox[Peer(side)] # <<>> /\ pc[side] # "start"

\* C16: the known bitmap a side has built has bit i set exactly when its DAG,
\* after the headers of the message were inserted, contains entry i of the have
\* list of that message; no other bit is set.
C16_KnownBitmap ==
    \A side \in Sides :
        Answered(side) =>
            sync[side].known_bitmap =
               {i - 1 : i \in {j \in 1 .. Len(sync[Peer(side)].haves) :
                                  contains(st[side], sync[Peer(side)].haves[j])}}

\* An answered have list of which the DAG holds one entry and lacks another.
C16_Witness ==
    \E side \in Sides :
        /\ Answered(side)
        /\ sync[side].known_bitmap # {}
        /\ \E j \in 1 .. Len(sync[Peer(side)].haves) :
              ~contains(st[side], sync[Peer(side)].haves[j])

\* A side has received the message that carries its peer's tip count.
HeardTipCount(side) ==
    /\ pc[server] # "recv_request"
    /\ side = client => inbox[client] = <<>> \/ Head(inbox[client]).kind # "Response"

C15_SizeLimits ==
    \A side \in Sides :
        /\ Len(sync[side].haves) <= 32
        /\ Len(sync[side].headers) <= 32

\* Both lists are full and both queues still hold entries.
C15_Witness ==
    /\ pc.left = "prepare"
    /\ Len(sync.left.haves) = 32 /\ sync.left.queue # <<>>
    /\ Len(sync.left.headers) = 32 /\ sync.left.send_queue # <<>>

\* The connections that got Some(recv) from initiate_peer for a device.
Admitted(peer_id) ==
    {c \in ConnIds : core.conn[c].peer_id = peer_id /\ core.conn[c].recv.some}

\* C18: initiate_peer returns Some exactly when the id is not in the registry
\* and then the registry holds the sender of the returned receiver; of all
\* connections of one device at most one is admitted to the mini-protocols.
C18_InitiatePeerAtomic ==
    /\ \A c \in ConnIds : \A peer_id \in DeviceIds :
          LET r == initiate_peer(peer_id, c, core.peer_state)
          IN  /\ r.recv.some <=> peer_id \notin DOMAIN core.peer_state
              /\ r.recv.some => r.recv.val = c /\ r.peer_state[peer_id] = c
    /\ \A peer_id \in DeviceIds : Cardinality(Admitted(peer_id)) <= 1
    /\ \A c \in ConnIds :
          core.conn[c].pc = "miniprotocols" =>
             /\ core.conn[c].recv = Some(c)
             /\ core.peer_state[core.conn[c].peer_id] = c

\* Two connections of one device have called initiate_peer: one runs the
\* mini-protocols, the other was refused.
C18_Witness ==
    \E c, d \in ConnIds :
        /\ c # d
        /\ core.conn[c].peer_id = core.conn[d].peer_id
        /\ core.conn[c].pc = "miniprotocols"
        /\ core.conn[d].pc = "closed" /\ ~core.conn[d].recv.some
        /\ core.conn[d].peer_id \in DeviceIds

\* C21: a connection runs mini-protocols only after its handshake succeeded
\* and initiate_peer returned Some; a connection whose handshake reported
\* ConnectingToSelf has returned, has no receiver and no registry entry; the
\* registry never holds the node's own DeviceId.
C21_HandshakeBeforeMiniprotocols ==
    /\ \A c \in ConnIds :
          /\ core.conn[c].pc = "miniprotocols" =>
                /\ core.conn[c].handshake = "ok"
                /\ core.conn[c].recv = Some(c)
                /\ core.conn[c].peer_id # device_id
          /\ core.conn[c].handshake = "ConnectingToSelf" =>
                /\ core.conn[c].pc = "closed"
                /\ ~core.conn[c].recv.some
                /\ \A peer_id \in DOMAIN core.peer_state : core.peer_state[peer_id] # c
    /\ device_id \notin DOMAIN core.peer_state

\* A connection to the node itself was refused by the handshake; connections
\* of both directions run the mini-protocols.
C21_Witness ==
    \E c, d, e \in ConnIds :
        /\ core.conn[c].handshake = "ConnectingToSelf"
        /\ core.conn[d].pc = "miniprotocols" /\ core.conn[d].role = "server"
        /\ core.conn[e].pc = "miniprotocols" /\ core.conn[e].role = "client"
        /\ core.peer_state # EmptyMap

Refused(c) == core.conn[c].pc = "initiate" /\ core'.conn[c].pc = "closed"

\* C19: a duplicate connection keeps the existing session: when initiate_peer
\* returns None the registry is unchanged, every other connection goes on as
\* it was, and the refused connection never runs mini-protocols.
C19_DuplicateKeepsSession ==
    [][\A c \in ConnIds :
          /\ Refused(c) =>
                /\ core'.peer_state = core.peer_state
                /\ core.conn[c].peer_id \in DOMAIN core.peer_state
                /\ \A d \in ConnIds \ {c} : core'.conn[d] = core.conn[d]
          /\ core.conn[c].pc = "closed" => core'.conn[c].pc = "closed"
      ]_vars

\* A connection was refused while the first connection of its device runs
\* the mini-protocols under its own registry entry.
C19_Witness ==
    \E c, d \in ConnIds :
        /\ core.conn[d].pc = "closed" /\ ~core.conn[d].recv.some
        /\ core.conn[d].peer_id \in DeviceIds
        /\ core.conn[c].pc = "miniprotocols"
        /\ core.conn[c].peer_id = core.conn[d].peer_id
        /\ core.peer_state[core.conn[c].peer_id] = c
        /\ core.conn[c].role # core.conn[d].role

\* C20: when the connection task of a peer has ended the peer is no longer in
\* the registry: every registry entry belongs to a connection that runs the
\* mini-protocols, so a later connection of the device is admitted.
C20_DroppedAfterEnd ==
    \A peer_id \in DOMAIN core.peer_state :
        core.conn[core.peer_state[peer_id]].pc = "miniprotocols"

\* The status of a store id, "absent" when the registry has no entry.
StatusOf(active_stores, store_id) ==
    IF store_id \in DOMAIN active_stores THEN active_stores[store_id].status
    ELSE "absent"

\* One step of the lifecycle of a store id.
LifecycleStep(store_id) ==
    LET before == StatusOf(core.active_stores, store_id)
        after  == StatusOf(core'.active_stores, store_id)
    IN  /\ before = "absent" => after \in {"absent", "Initializing"}
        /\ before = "Initializing" => after \in {"Initializing", "Running"}
        /\ before = "Running" => core'.active_stores[store_id] = core.active_stores[store_id]

\* C22: store lifecycle: an entry of the active-store registry goes from absent
\* to Initializing to Running, never back and never away, and command_channel
\* yields a sender exactly when the status is Running.
C22_StoreLifecycle ==
    [][\A store_id \in StoreIds :
          /\ LifecycleStep(store_id)
          /\ store_id \in DOMAIN core'.active_stores =>
                (command_channel(core'.active_stores[store_id]).some
                   <=> StatusOf(core'.active_stores, store_id) = "Running")
      ]_vars

\* Both stores are Running, one created and one joined.
C22_Witness ==
    /\ \A store_id \in StoreIds : StatusOf(core.active_stores, store_id) = "Running"
    /\ \E j, k \in CallIds :
          /\ core.call[j].op = "create_store" /\ core.call[j].pc = "done"
          /\ core.call[k].op = "connect_to_store" /\ core.call[k].pc = "done"

\* The calls that launched a handler task for a store id.
Launched(store_id) ==
    {k \in CallIds : core.call[k].launched /\ core.call[k].store_id = store_id}

\* Call k finds its store id taken in this step.
Collides(k) == core.call[k].pc = "check" /\ core'.call[k].pc \in {"new_syncing", "panic"}

\* C23: store id collisions: a call that finds its id registered leaves the
\* registry as it is and, in create_store, starts over with a new id; at most
\* one handler task is ever launched per store id, and it is the one named
\* by the Running entry.
C23_StoreIdCollisions ==
    [][/\ \A k \in CallIds :
             Collides(k) =>
                /\ core'.active_stores = core.active_stores
                /\ core.call[k].store_id \in DOMAIN core.active_stores
                /\ ~core'.call[k].launched
                /\ core.call[k].op = "create_store" => core'.call[k].pc = "new_syncing"
       /\ \A store_id \in StoreIds :
             /\ Cardinality(Launched(store_id)') <= 1
             /\ StatusOf(core'.active_stores, store_id) = "Running" =>
                   Launched(store_id)' = {core'.active_stores[store_id].store_handle}
      ]_vars

\* A create_store that collided with a store another call had registered has
\* finished under another id.
C23_Witness ==
    \E j, k \in CallIds :
        /\ j # k
        /\ core.call[j].pc = "done" /\ core.call[k].pc = "done"
        /\ core.call[j].store_id # core.call[k].store_id
        /\ core.call[k].op = "create_store"
        /\ \E l \in CallIds \ {j, k} : core.call[l].pc = "panic"

C25_BindSuccessivePorts ==
    LET b == core.bind
        attempts == Len(b.tried) + (IF b.listener.some THEN 1 ELSE 0)
    IN  /\ \A j \in 1 .. Len(b.tried) : b.tried[j] = b.start + j - 1
        /\ attempts <= BIND_ATTEMPTS
        /\ b.listener.some => b.listener.val = b.start + Len(b.tried)
        /\ b.pc = "done" /\ ~b.listener.some => Len(b.tried) = BIND_ATTEMPTS
        /\ b.pc # "panic"
        /\ ~b.overflow

\* The messages a side has sent and its peer has not yet taken up.
Sent(side) == inbox[Peer(side)]

DeclaredChildren(s, p) == {n \in Nodes(s) : p \in DeclaredParents(s, n)}

\* The ids of a set paired with their stored depths.
WithDepth(s, ids) == {<<s.node_info_map[id].depth, id>> : id \in ids}

\* C27: parents are preserved: for every node of a DAG get_parents returns
\* exactly the parents its header declares, get_parents_with_depth these
\* with their stored depths, and get_children_with_depth exactly the nodes
\* that declare it as a parent with their stored depths.
C27_ParentsPreserved ==
    \A side \in Sides : \A h \in Nodes(st[side]) :
        /\ get_parents(st[side], h).some
        /\ Range(get_parents(st[side], h).val) = DeclaredParents(st[side], h)
        /\ get_parents_with_depth(st[side], h).some
        /\ Range(get_parents_with_depth(st[side], h).val)
              = WithDepth(st[side], DeclaredParents(st[side], h))
        /\ get_children_with_depth(st[side], h).some
        /\ Range(get_children_with_depth(st[side], h).val)
              = WithDepth(st[side], DeclaredChildren(st[side], h))

\* A store has taken a header with two parents from a remote peer's message;
\* one of the parents has another child at another depth.
C27_Witness ==
    /\ pc.left = "replied"
    /\ \E h \in Nodes(st.left) \ Nodes(init.left) :
          /\ Cardinality(DeclaredParents(st.left, h)) = 2
          /\ \E p \in DeclaredParents(st.left, h) :
                Cardinality(DeclaredChildren(st.left, p)) >= 2

\* Two operations, at the times ta and tb, are concurrent and of the kinds the
\* commutativity of a TwoPMap is stated for: neither was issued knowing the
\* other, so neither names the key the other inserts, and they are not two
\* updates of one value (those commute when the values do).
ConcurrentOps(a, ta, b, tb) ==
    /\ a.type # "Insert" => a.key # tb
    /\ b.type # "Insert" => b.key # ta
    /\ ~(a.type = "Apply" /\ b.type = "Apply" /\ a.key = b.key)

\* The two times after every operation time of the replica.
TimeA == MaxOpTime + 1

TimeB == MaxOpTime + 2

Commute(self, a, b) ==
    LET ab == TwoPMap_apply(TwoPMap_apply(self, TimeA, a), TimeB, b)
        ba == TwoPMap_apply(TwoPMap_apply(self, TimeB, b), TimeA, a)
    IN  /\ ~ab.panic /\ ~ba.panic
        /\ ab.map = ba.map
        /\ ab.tombstones = ba.tombstones

\* C28: TwoPMap::apply commutes for concurrent operations: in every state
\* reached under causal delivery, two concurrent operations (a delete and an
\* update of one key, two deletes, an insert and an operation on another key)
\* give the same map and the same tombstones in either order.
C28_ApplyCommutes ==
    /\ ~core.crdt.state.panic
    /\ \A a, b \in Deliverable(core.crdt.state) :
          ConcurrentOps(a, TimeA, b, TimeB) => Commute(core.crdt.state, a, b)

\* A map with an updated value and a tombstone, for which a delete and an
\* update of the live key are deliverable.
C28_Witness ==
    /\ core.crdt.state.tombstones # {}
    /\ \E k \in DOMAIN core.crdt.state.map :
          /\ core.crdt.state.map[k] # <<>>
          /\ [type |-> "Delete", key |-> k] \in Deliverable(core.crdt.state)
          /\ [type |-> "Apply", key |-> k, operation |-> "a"]
                \in Deliverable(core.crdt.state)

RECURSIVE Log2Floor(_)
Log2Floor(n) == IF n <= 1 THEN 0 ELSE 1 + Log2Floor(n \div 2)

\* 0 and the powers of two up to the longest distance in a chain.
PowersOfTwo == {0} \cup {2 ^ k : k \in 0 .. Log2Floor(MaxChain)}

ChainLen == Cardinality(Nodes(st.left))

\* The distance of header i of the chain from the tip.
ChainDistance(i) == ChainLen - 1 - i

\* The header of the chain nearest to the tip that the peer is known to have;
\* -1 when there is none.
NearestKnown ==
    IF sync.left.their_known = {} THEN 0 - 1
    ELSE CHOOSE m \in sync.left.their_known : \A k \in sync.left.their_known : k <= m

\* prepare_haves has run on the chain.
Probed == pc.left = "prepare" /\ (sync.left.queue = <<>> \/ sync.left.haves # <<>>)

\* A sequence of ids that lists exactly the set S, nearest to the tip first.
ListsDescending(haves, S) ==
    /\ Range(haves) = S
    /\ \A i, j \in 1 .. Len(haves) : i < j => haves[i] > haves[j]

\* C29: probe rule of prepare_haves: probing a chain from its tip stops at the
\* first header in their_known, which is skipped and whose parents are not
\* enqueued; a header before it is in haves exactly when its distance is 0 or a
\* power of two or its depth is 1, and the probe goes on to its parent
\* whether or not it was appended.
C29_ProbeRule ==
    Probed =>
        /\ sync.left.queue = <<>>
        /\ ListsDescending(sync.left.haves,
              {i \in (NearestKnown + 1) .. (ChainLen - 1) :
                  ChainDistance(i) \in PowersOfTwo \/ st.left.node_info_map[i].depth = 1})

\* The probe passed headers it did not propose and stopped at a known header
\* that its distance alone would have proposed.
C29_Witness ==
    /\ Probed
    /\ NearestKnown >= 1
    /\ ChainDistance(NearestKnown) = 8
    /\ NearestKnown + 1 \notin Range(sync.left.haves)
    /\ Len(sync.left.haves) = 4

\* The have entries proposed before the header attached to the root.
BeforeRoot(haves) == Cardinality({i \in 1 .. Len(haves) : haves[i] # 0})

\* C30: exponential probing on a chain of N headers none of which the peer is
\* known to have: the haves are the headers at the distances 0, 1, 2, 4, 8, ...
\* from the tip and the header of depth 1, and at most floor(log2(N)) + 2
\* entries come before that header.
C30_ExponentialProbing ==
    Probed /\ sync.left.their_known = {} =>
        /\ Range(sync.left.haves)
              = {i \in 0 .. (ChainLen - 1) : ChainDistance(i) \in PowersOfTwo} \cup {0}
        /\ 0 \in Range(sync.left.haves)
        /\ sync.left.haves[Len(sync.left.haves)] = 0
        /\ BeforeRoot(sync.left.haves) <= Log2Floor(ChainLen) + 2

\* A chain of 34 headers probed to its root: the header at distance 32 was
\* proposed, and the root after it.
C30_Witness ==
    /\ Probed /\ sync.left.their_known = {}
    /\ ChainLen = 34
    /\ sync.left.haves = <<33, 32, 31, 29, 25, 17, 1, 0>>

\* The have list a message carries.
HaveOf(m) == IF m.kind = "Request" THEN m.have ELSE m.sync.have

\* The entries of a sent have list whose bit is set in a bitmap, in the order
\* of the list.
AckedHaves(sent_haves, known) ==
    LET idx == Ascending({i \in 1 .. Len(sent_haves) : (i - 1) \in known})
    IN  [j \in 1 .. Len(idx) |-> sent_haves[idx[j]]]

\* mark_as_known called for each id of a list in turn.
RECURSIVE MarkEach(_, _, _)
MarkEach(s, their_known, ids) ==
    IF ids = <<>> THEN their_known
    ELSE MarkEach(s, mark_as_known(s, their_known, Head(ids)).their_known, Tail(ids))

\* A side is about to handle a message in a round of the session.
Handling(side) ==
    /\ pc[side] = "wait" /\ inbox[side] # <<>>
    /\ ~(is_done(Head(inbox[side])) /\ sent_done[side])

\* A round of a side keeps what the received known bits marked in the have
\* list the side held before the round.
KnownApplied ==
    \A side \in Sides :
        Handling(side) /\ inbox'[side] = Tail(inbox[side]) =>
            MarkEach(st[side], sync[side].their_known,
                     AckedHaves(sync[side].haves, Head(inbox[side]).sync.known))
                \subseteq sync'[side].their_known

\* C31: received known bits are read against the previous have list: while a
\* side's message is on the way its haves are the have list of that message,
\* and a round marks as known exactly the entries of that list whose bit is
\* set in the received bitmap, before prepare_haves builds the next list.
C31_KnownAgainstSentHaves ==
    /\ [](\A side \in Sides :
            /\ inbox[Peer(side)] # <<>> /\ pc[side] # "panic" =>
                  HaveOf(inbox[Peer(side)][Len(inbox[Peer(side)])]) = sync[side].haves
            /\ Handling(side) =>
                  LET r == handle_received_known(st[side], sync[side].their_known,
                              sync[side].haves, Head(inbox[side]).sync.known)
                  IN  /\ ~r.panic
                      /\ r.their_known =
                            MarkEach(st[side], sync[side].their_known,
                               AckedHaves(sync[side].haves,
                                          Head(inbox[side]).sync.known)))
    /\ [][KnownApplied]_vars

\* A side takes up a bitmap that acknowledges one entry of the have list it
\* sent, an id not in its their_known yet, and leaves another unacknowledged.
C31_Witness ==
    \E side \in Sides :
        /\ Handling(side)
        /\ \E i, j \in 1 .. Len(sync[side].haves) :
              /\ (i - 1) \in Head(inbox[side]).sync.known
              /\ sync[side].haves[i] \notin sync[side].their_known
              /\ (j - 1) \notin Head(inbox[side]).sync.known

\* A side is about to run a round: the server on the Request, or either side
\* on a Response or Sync it has to handle.
RoundAhead(side) ==
    \/ side = server /\ pc[server] = "recv_request" /\ inbox[server] # <<>>
          /\ tip_count(our_tips[server]).count.some
    \/ Handling(side)

\* The DAG, send queue and their_known with which the round ahead of a side
\* calls prepare_headers: what handle_received_known, handle_received_headers
\* and handle_received_have leave.
AtPrepareHeaders(side) ==
    LET msg == Head(inbox[side])
    IN  IF msg.kind = "Request"
        THEN [st |-> st[side],
              h  |-> handle_received_have(st[side], msg.tip_count, <<>>, {}, <<>>,
                                          msg.have)]
        ELSE LET e  == OnMessage(sync[side], msg)
                 k  == handle_received_known(st[side], e.their_known, e.haves,
                                             msg.sync.known)
                 s2 == handle_received_headers(st[side], msg.sync.headers)
             IN  [st |-> s2,
                  h  |-> handle_received_have(s2, e.their_tips_remaining, e.their_tips,
                                              k.their_known, e.send_queue,
                                              msg.sync.have)]

\* The ids of the headers of a list.
IdsOf(headers) == IdsFrom(headers, 1)

\* No id occurs twice in a list of headers.
DistinctIds(headers) ==
    \A i, j \in 1 .. Len(headers) :
        get_header_id(headers[i]) = get_header_id(headers[j]) => i = j

\* What prepare_headers builds from their_known K: headers of distinct ids,
\* none of them in K, and their_known grown by exactly those ids; so each
\* header was outside their_known at the moment it was appended.
FreshHeaders(K, p) ==
    /\ DistinctIds(p.headers)
    /\ IdsOf(p.headers) \cap K = {}
    /\ p.their_known = K \cup IdsOf(p.headers)

\* A round of a side sends the headers prepare_headers built, none of them an
\* id that was in the side's their_known before the round.
SendsFresh ==
    \A side \in Sides :
        RoundAhead(side) /\ inbox'[side] = Tail(inbox[side]) =>
            LET a == AtPrepareHeaders(side)
            IN  /\ sync'[side].headers =
                      prepare_headers(a.st, a.h.send_queue, a.h.their_known).headers
                /\ IdsOf(sync'[side].headers) \cap sync[side].their_known = {}
                /\ sync[side].their_known \subseteq sync'[side].their_known

\* C32: no redundant delivery: prepare_headers appends no header that is in
\* their_known at that moment; the ids a side has delivered stay in its
\* their_known, and a round delivers no id of its their_known, so no id is
\* delivered to the peer twice in a session.
C32_NoRedundantDelivery ==
    /\ [](\A side \in Sides :
            /\ IdsOf(sync[side].headers) \subseteq sync[side].their_known
            /\ RoundAhead(side) =>
                  LET a == AtPrepareHeaders(side)
                  IN  FreshHeaders(a.h.their_known,
                         prepare_headers(a.st, a.h.send_queue, a.h.their_known)))
    /\ [][SendsFresh]_vars

\* A side has delivered headers in an earlier round and is about to run a
\* round whose send queue holds one id twice that it has not delivered yet,
\* and an id it delivered in the round before.
C32_Witness ==
    \E side \in Sides :
        /\ RoundAhead(side)
        /\ sync[side].headers # <<>>
        /\ LET q == AtPrepareHeaders(side).h.send_queue
               K == AtPrepareHeaders(side).h.their_known
           IN  /\ \E i, j \in 1 .. Len(q) :
                     i # j /\ q[i][2] = q[j][2] /\ q[i][2] \notin K
               /\ \E i \in 1 .. Len(q) : q[i][2] \in IdsOf(sync[side].headers)

\* A message that proposes nothing and delivers nothing.
Quiet(m) ==
    IF m.kind = "Request" THEN m.have = <<>>
    ELSE m.sync.have = <<>> /\ m.sync.headers = <<>>

\* A side that returns Ok in a step has just taken a quiet message from its
\* peer, and the last message it sent, in this step or before, was done.
EndsQuiet ==
    \A side \in Sides :
        result[side] # "Ok" /\ result'[side] = "Ok" =>
            /\ inbox[side] # <<>> /\ Quiet(Head(inbox[side]))
            /\ sent_done'[side]

\* C33: quiescence is the only way to finish: is_done holds of a message
\* exactly when it is quiet (no haves, and for a Sync or Response no headers),
\* sent_done of a side is is_done of the last message it sent, and a side
\* returns Ok only when the last message of each direction was done.
C33_QuiescenceOnly ==
    /\ [](\A side \in Sides :
            /\ \A i \in 1 .. Len(inbox[side]) :
                  is_done(inbox[side][i]) <=> Quiet(inbox[side][i])
            /\ inbox[Peer(side)] # <<>> /\ pc[side] # "panic" =>
                  (sent_done[side] <=> Quiet(inbox[Peer(side)][Len(inbox[Peer(side)])])))
    /\ [][EndsQuiet]_vars

\* A side has returned Ok in a session in which it received headers.
C33_Witness ==
    \E side \in Sides :
        /\ result[side] = "Ok"
        /\ Nodes(st[side]) # Nodes(init[side])

\* The header ids a side's session variables hold: in the probe queue, in the
\* send queue, in their_known and in the last have list.
HeldIds(e) ==
    {e.queue[i][3] : i \in 1 .. Len(e.queue)}
        \cup {e.send_queue[i][2] : i \in 1 .. Len(e.send_queue)}
        \cup e.their_known \cup Range(e.haves)

\* C34: every header id in the probe queue, the send queue, their_known and the
\* last-sent have list of a side is a node of its DAG, also in the middle of
\* a round, when prepare_headers is called; and no round of a session reaches
\* a todo!() for a lookup that returned None.
C34_HeldIdsAreNodes ==
    \A side \in Sides :
        /\ HeldIds(sync[side]) \subseteq Nodes(st[side])
        /\ pc[side] # "panic"
        /\ RoundAhead(side) =>
              LET a == AtPrepareHeaders(side)
              IN  /\ ~a.h.panic
                  /\ a.h.their_known \subseteq Nodes(a.st)
                  /\ \A i \in 1 .. Len(a.h.send_queue) :
                        a.h.send_queue[i][2] \in Nodes(a.st)

\* A side is about to run a round on a have list that names a header it holds
\* and one it lacks; its last have list is not empty, and their_known and the
\* send queue will not be empty when the round calls prepare_headers.
C34_Witness ==
    \E side \in Sides :
        /\ RoundAhead(side)
        /\ sync[side].haves # <<>>
        /\ AtPrepareHeaders(side).h.their_known # {}
        /\ AtPrepareHeaders(side).h.send_queue # <<>>
        /\ \E i, j \in 1 .. Len(HaveOf(Head(inbox[side]))) :
              /\ contains(st[side], HaveOf(Head(inbox[side]))[i])
              /\ ~contains(st[side], HaveOf(Head(inbox[side]))[j])

\* C35: a received have list of any length is handled without a crash:
\* handle_received_have, in the round ahead of a side, leaves a bitmap within
\* positions 0 .. 31 and touches no position at index 32 or above, and no
\* round has ended in a panic.
C35_BitmapInRange ==
    \A side \in Sides :
        /\ pc[side] # "panic"
        /\ RoundAhead(side) =>
              LET h == AtPrepareHeaders(side).h
              IN  /\ ~h.panic
                  /\ h.known_bitmap \subseteq 0 .. (MAX_HAVE_HEADERS - 1)
                  /\ \A i \in 1 .. Len(HaveOf(Head(inbox[side]))) :
                        contains(st[side], HaveOf(Head(inbox[side]))[i]) =>
                           (i - 1) \in h.known_bitmap

BothProcessed ==
    \A n \in DeviceIds : \A c \in DeviceIds :
        /\ core.cross[n].conn[c].handshake = "ok"
        /\ core.cross[n].conn[c].pc \in {"miniprotocols", "closed"}

\* C37: simultaneous cross-connection: when two nodes have each opened a
\* connection to the other and both have processed both handshakes and
\* initiate_peer calls, one of the two connections was admitted to the
\* mini-protocols on both ends.
C37_CrossConnection ==
    BothProcessed =>
        \E c \in DeviceIds : \A n \in DeviceIds : core.cross[n].conn[c].recv.some

\* C38: sync integrity: at every point of a session each side's DAG holds
\* every header it started with, and only headers of the initial DAG of one of
\* the two sides, each with the parents it had there; the session creates no
\* header and changes no header's parents.
C38_SyncIntegrity ==
    \A side \in Sides :
        /\ HeaderPairs(init[side]) \subseteq HeaderPairs(st[side])
        /\ HeaderPairs(st[side]) \subseteq
              HeaderPairs(init.left) \cup HeaderPairs(init.right)
        /\ \A id \in Nodes(st[side]) : \A from \in Sides :
              id \in Nodes(init[from]) =>
                 Range(get_parents(st[side], id).val) = DeclaredParents(init[from], id)

\* A side that started with headers holds two or more headers it did not start
\* with, one of them a header with parents.
C38_Witness ==
    \E side \in Sides :
        /\ Nodes(init[side]) # {}
        /\ Cardinality(Nodes(st[side]) \ Nodes(init[side])) >= 2
        /\ \E id \in Nodes(st[side]) \ Nodes(init[side]) :
              DeclaredParents(st[side], id) # {}

\* What one more apply call leaves of a map: no key that is also a tombstone,
\* every tombstone it had, and no entry for a key that had a tombstone.
StaysDeleted(self, r) ==
    /\ DOMAIN r.map \cap r.tombstones = {}
    /\ self.tombstones \subseteq r.tombstones
    /\ \A key \in self.tombstones : TwoPMap_get(r, key) = None

\* C39: TwoPMap deletion is permanent: after any sequence of apply calls the
\* keys of map and the tombstones are disjoint, no apply call removes a
\* tombstone, and get of a key that has a tombstone is None whatever Insert,
\* Apply or Delete is applied next, at any time.
C39_DeletionPermanent ==
    /\ [](/\ DOMAIN core.crdt.state.map \cap core.crdt.state.tombstones = {}
          /\ \A key \in core.crdt.state.tombstones :
                TwoPMap_get(core.crdt.state, key) = None
          /\ \A op_time \in OpTimes : \A op \in AnyOps :
                StaysDeleted(core.crdt.state,
                             TwoPMap_apply(core.crdt.state, op_time, op)))
    /\ [][core.crdt.state.tombstones \subseteq core'.crdt.state.tombstones]_vars

\* A map that holds a key next to two tombstones, after an operation at each of
\* the tombstones' times and at the last time.
C39_Witness ==
    /\ ~core.crdt.state.panic
    /\ DOMAIN core.crdt.state.map # {}
    /\ \E j, k \in core.crdt.state.tombstones :
          /\ j # k
          /\ {j, k, MaxOpTime} \subseteq core.crdt.causal_state

====
